---- MODULE Spec2Model ----
(***************************************************************************)
(* RegenArdhi land-analysis engine: the external data clients, the         *)
(* estimators and the two analysis pipelines                               *)
(* (app/api_integrations.py: LandAnalysisService, app/projects.py:         *)
(* comprehensive_land_analysis).                                           *)
(*                                                                         *)
(* Number representation (Python floats become scaled integers, chosen so  *)
(* that every comparison and rounding of the source is exact):             *)
(*   latitude, longitude   half-degrees     (23.5 deg = 47, 66.5 deg = 133)*)
(*   temperature           tenths of a degree Celsius (round(x, 1))        *)
(*   humidity              percent                                         *)
(*   elevation             metres                                          *)
(*   vegetation index      hundredths       (round(x, 2))                  *)
(*   soil pH               tenths           (round(x, 1))                  *)
(*   rainfall              millimetres      (int(x))                       *)
(*   area                  hectares                                        *)
(*   budget                KES                                             *)
(* A Python value that may be None is a record [none, n]: None is          *)
(* [none |-> TRUE, n |-> 0], the number k is [none |-> FALSE, n |-> k].    *)
(***************************************************************************)
EXTENDS Integers, Sequences, FiniteSets, TLC

VARIABLES
    est,    \* SpecEstimators: one run of a derivation chain on numeric inputs
    deg,    \* SpecDegradation: two calls of a degradation estimator
    clim,   \* SpecClimate: one call of _process_climate_data
    cli,    \* SpecClients: one call of a data client, request by request
    ana,    \* SpecAnalysis: one analysis request
    rec,    \* SpecRecommendations: calls of the estimators and generators
    trd,    \* SpecTrend: one call of calculate_ndvi_trend
    alr,    \* SpecAlerts: one call of generate_alerts
    prj,    \* SpecProjects: a stored project, updated and re-analysed
    pcd,    \* SpecProjectClimate: one call of get_real_climate_data
    sta,    \* SpecStatus: projects of two users under status and progress requests
    rst,    \* SpecReset: the password-reset tokens of two users
    fer     \* SpecFertility: two soils of equal NDVI, classified

vars == <<est, deg, clim, cli, ana, rec, trd, alr, prj, pcd, sta, rst, fer>>

-----------------------------------------------------------------------------
(* Python built-ins used by the source *)

None == [none |-> TRUE, n |-> 0]

Num(k) == [none |-> FALSE, n |-> k]

Abs(x) == IF x < 0 THEN -x ELSE x

Max(a, b) == IF a > b THEN a ELSE b

Min(a, b) == IF a < b THEN a ELSE b

RECURSIVE Sum(_)
Sum(arr) == IF arr = <<>> THEN 0 ELSE Head(arr) + Sum(Tail(arr))

\* seq[:k]
Take(seq, k) == SubSeq(seq, 1, Min(k, Len(seq)))

Contains(seq, x) == \E i \in 1..Len(seq) : seq[i] = x

-----------------------------------------------------------------------------
(* Estimators of LandAnalysisService (app/api_integrations.py) *)

\* Lines 531-532 without the clamp to [0.0, 1.0].
ndvi_unclamped(base_ndvi, longitude) == base_ndvi + (Abs(longitude) % 20) - 10

\* ndvi = max(0.0, min(1.0, base_ndvi + variation - 0.1)), in hundredths;
\* variation = (abs(longitude) % 10) * 0.02.
ndvi_clamped(base_ndvi, longitude) ==
    Max(0, Min(100, base_ndvi + (Abs(longitude) % 20) - 10))

\* Base NDVI by latitude band, then the temperature/humidity adjustment.
\* `humidity` is only read where Python's short-circuit evaluation reads it.
ndvi_base(latitude, temp, humidity) ==
    LET abs_lat == Abs(latitude)
        band == IF abs_lat < 20 THEN 60
                ELSE IF abs_lat < 47 THEN 50
                ELSE IF abs_lat < 70 THEN 40
                ELSE IF abs_lat < 100 THEN 35
                ELSE 20
    IN  IF temp > 250 /\ humidity > 60 THEN band + 10
        ELSE IF temp < 100 \/ humidity < 30 THEN band - 15
        ELSE band

ndvi_bias_first(ndvi, temps) ==
    IF temps = <<>> THEN ndvi
    ELSE LET recent == temps[1]
             n == Len(temps)
         IN  IF recent * n > Sum(temps) + 2 * n THEN Min(100, ndvi + 3)
             ELSE IF recent * n < Sum(temps) - 2 * n THEN Max(0, ndvi - 3)
             ELSE ndvi

\* The recent-temperature bias of lines 536-547; temps is
\* climate_history['time_series']['temperature'].
ndvi_bias(ndvi, temps) ==
    IF temps = <<>> THEN ndvi
    ELSE LET recent == temps[Len(temps)]
             n == Len(temps)
         IN  \* recent > mean + 2  <=>  recent * n > sum + 2 * n
             IF recent * n > Sum(temps) + 2 * n THEN Min(100, ndvi + 3)
             ELSE IF recent * n < Sum(temps) - 2 * n THEN Max(0, ndvi - 3)
             ELSE ndvi

\* Comparing None with a number raises TypeError: `temp > 25 and humidity > 60`
\* reads humidity when temp > 25, `temp < 10 or humidity < 30` when temp >= 10.
ndvi_raises(weather) == weather.humidity.none /\ weather.temperature >= 100

_estimate_ndvi(latitude, longitude, weather, climate_history) ==
    IF ndvi_raises(weather) THEN 0   \* except Exception: return 0.0
    ELSE LET humidity == weather.humidity.n
             ndvi == ndvi_clamped(ndvi_base(latitude, weather.temperature, humidity),
                                  longitude)
         IN  IF climate_history.none THEN ndvi
             ELSE ndvi_bias(ndvi, climate_history.time_series.temperature)

_determine_climate_zone(latitude, temperature) ==
    LET abs_lat == Abs(latitude)
    IN  IF abs_lat > 133 THEN "Polar"
        ELSE IF abs_lat > 120 THEN "Subpolar"
        ELSE IF abs_lat > 90
             THEN (IF temperature > 200 THEN "Warm Temperate" ELSE "Cool Temperate")
        ELSE IF abs_lat > 60
             THEN (IF temperature > 250 THEN "Subtropical" ELSE "Warm Temperate")
        ELSE IF abs_lat > 47 THEN "Tropical"
        ELSE "Equatorial"

\* elevation is a number here; a None elevation raises TypeError at line 575.
_analyze_soil_type(latitude, longitude, elevation) ==
    LET abs_lat == Abs(latitude)
        soil_types ==
            IF elevation > 2000 THEN <<"Rocky", "Mountain Soil", "Thin Soil">>
            ELSE IF elevation > 1000 THEN <<"Loamy", "Clay-Loam", "Sandy-Loam">>
            ELSE IF abs_lat < 20 THEN <<"Laterite", "Tropical Red", "Alluvial">>
            ELSE IF abs_lat < 60 THEN <<"Alluvial", "Loamy", "Red Soil">>
            ELSE IF abs_lat < 100 THEN <<"Loamy", "Clay", "Podzol">>
            ELSE <<"Tundra", "Permafrost", "Gleysol">>
        \* int(abs(longitude)) % len(soil_types)
        index == (Abs(longitude) \div 2) % Len(soil_types)
    IN  soil_types[index + 1]

\* base_ph.get(soil_type, 6.5)
base_ph(soil_type) ==
    CASE soil_type = "Laterite" -> 55
      [] soil_type = "Tropical Red" -> 60
      [] soil_type = "Alluvial" -> 70
      [] soil_type = "Loamy" -> 65
      [] soil_type = "Clay" -> 72
      [] soil_type = "Sandy" -> 68
      [] soil_type = "Rocky" -> 75
      [] soil_type = "Mountain Soil" -> 63
      [] soil_type = "Podzol" -> 50
      [] soil_type = "Tundra" -> 55
      [] OTHER -> 65

\* The humidity shift of lines 599-603 with 0.5 written for 0.3.
ph_shift_half(ph, humidity) ==
    IF humidity > 70 THEN ph - 5
    ELSE IF humidity < 40 THEN ph + 5
    ELSE ph

ph_shift(ph, humidity) ==
    IF humidity > 70 THEN ph - 3
    ELSE IF humidity < 40 THEN ph + 3
    ELSE ph

\* weather['humidity'] is a number here; None raises TypeError at line 600.
_calculate_soil_ph(soil_type, weather) ==
    ph_shift(base_ph(soil_type), weather.humidity.n)

_calculate_fertility(soil_ph, ndvi) ==
    IF 60 <= soil_ph /\ soil_ph <= 75 /\ ndvi > 50 THEN "high"
    ELSE IF ((55 <= soil_ph /\ soil_ph < 60) \/ (75 < soil_ph /\ soil_ph <= 80))
            /\ ndvi > 35 THEN "medium"
    ELSE "low"

\* base_rainfall.get(climate_zone, 800)
base_rainfall(climate_zone) ==
    CASE climate_zone = "Equatorial" -> 2500
      [] climate_zone = "Tropical" -> 1800
      [] climate_zone = "Subtropical" -> 1000
      [] climate_zone = "Warm Temperate" -> 800
      [] climate_zone = "Cool Temperate" -> 700
      [] climate_zone = "Subpolar" -> 500
      [] climate_zone = "Polar" -> 250
      [] OTHER -> 800

\* int(rainfall): the products by 1.3 and 0.6 of the seven bases are whole.
_estimate_annual_rainfall(climate_zone, humidity, longitude) ==
    LET base == base_rainfall(climate_zone)
        rainfall == IF humidity > 70 THEN (base * 13) \div 10
                    ELSE IF humidity < 40 THEN (base * 6) \div 10
                    ELSE base
        \* (abs(longitude) % 15) * 20
        variation == (Abs(longitude) % 30) * 10
    IN  rainfall + variation

\* score >= 5 critical, >= 4 severe, >= 2 moderate, else minimal
degradation_class(score) ==
    IF score >= 5 THEN "critical"
    ELSE IF score >= 4 THEN "severe"
    ELSE IF score >= 2 THEN "moderate"
    ELSE "minimal"

\* The NDVI thresholds of lines 634-641 with the two middle bands swapped.
ndvi_points_swapped(ndvi) ==
    IF ndvi < 20 THEN 4 ELSE IF ndvi < 35 THEN 2 ELSE IF ndvi < 50 THEN 3 ELSE 1

ndvi_points(ndvi) ==
    IF ndvi < 20 THEN 4 ELSE IF ndvi < 35 THEN 3 ELSE IF ndvi < 50 THEN 2 ELSE 1

_assess_degradation(ndvi, soil_ph, area_hectares) ==
    LET score == ndvi_points(ndvi)
                 + (IF soil_ph < 50 \/ soil_ph > 85 THEN 1 ELSE 0)
                 + (IF area_hectares > 100 THEN 1 ELSE 0)
    IN  degradation_class(score)

\* crops_db.get(climate_zone, ["Consult agronomist"]); no Subpolar or Polar key.
service_crops(climate_zone) ==
    CASE climate_zone = "Equatorial" ->
            <<"Rice", "Bananas", "Cassava", "Yams", "Cocoa", "Coffee">>
      [] climate_zone = "Tropical" ->
            <<"Maize", "Beans", "Cassava", "Sweet Potato", "Millet", "Sorghum">>
      [] climate_zone = "Subtropical" ->
            <<"Wheat", "Maize", "Citrus", "Grapes", "Cotton", "Rice">>
      [] climate_zone = "Warm Temperate" ->
            <<"Wheat", "Barley", "Potato", "Apple", "Cherry", "Corn">>
      [] climate_zone = "Cool Temperate" ->
            <<"Oats", "Barley", "Potato", "Cabbage", "Berries", "Rye">>
      [] OTHER -> <<"Consult agronomist">>

\* trees_db.get(climate_zone, ["Consult forester"])
service_trees(climate_zone) ==
    CASE climate_zone = "Equatorial" ->
            <<"Mahogany", "Teak", "Rubber", "Oil Palm", "Bamboo">>
      [] climate_zone = "Tropical" ->
            <<"Acacia", "Neem", "Mango", "Moringa", "Grevillea", "Eucalyptus">>
      [] climate_zone = "Subtropical" ->
            <<"Oak", "Citrus", "Olive", "Pine", "Cypress">>
      [] climate_zone = "Warm Temperate" ->
            <<"Oak", "Maple", "Ash", "Pine", "Walnut">>
      [] climate_zone = "Cool Temperate" ->
            <<"Spruce", "Fir", "Birch", "Alder", "Larch">>
      [] OTHER -> <<"Consult forester">>

\* techniques_db.get(degradation, [])
service_techniques(degradation) ==
    CASE degradation = "minimal" ->
            <<"Regular mulching and organic matter addition",
              "Crop rotation practices",
              "Water conservation techniques">>
      [] degradation = "moderate" ->
            <<"Contour farming and terracing",
              "Agroforestry integration",
              "Soil amendment with compost",
              "Cover cropping">>
      [] degradation = "severe" ->
            <<"Intensive afforestation program",
              "Deep tillage and soil loosening",
              "Watershed management systems",
              "Biochar application">>
      [] degradation = "critical" ->
            <<"Emergency restoration protocols",
              "Comprehensive soil remediation",
              "Intensive irrigation system installation",
              "Professional consultation required">>
      [] OTHER -> <<>>

\* timeline_map.get(degradation, 24)
timeline_map(degradation) ==
    CASE degradation = "minimal" -> 12
      [] degradation = "moderate" -> 24
      [] degradation = "severe" -> 36
      [] degradation = "critical" -> 48
      [] OTHER -> 24

\* budget_map.get(degradation, 100000)
budget_map(degradation) ==
    CASE degradation = "minimal" -> 50000
      [] degradation = "moderate" -> 150000
      [] degradation = "severe" -> 350000
      [] degradation = "critical" -> 700000
      [] OTHER -> 100000

budget_per_hectare_le(degradation, rainfall) ==
    IF rainfall <= 600 THEN (budget_map(degradation) * 3) \div 2
    ELSE budget_map(degradation)

\* budget *= 1.5 when rainfall < 600; round(budget, 2). Every base is even.
budget_per_hectare(degradation, rainfall) ==
    IF rainfall < 600 THEN (budget_map(degradation) * 3) \div 2
    ELSE budget_map(degradation)

_generate_recommendations(climate_zone, soil_type, soil_ph, degradation, rainfall) ==
    [crops |-> Take(service_crops(climate_zone), 5),
     trees |-> Take(service_trees(climate_zone), 5),
     techniques |-> service_techniques(degradation),
     timeline_months |-> timeline_map(degradation),
     budget_per_hectare |-> budget_per_hectare(degradation, rainfall)]

-----------------------------------------------------------------------------
(* Estimators of the project-creation pipeline (app/projects.py). The code *)
(* repeats that of LandAnalysisService; the differences are the absent     *)
(* temperature bias and the 0.4 returned by calculate_ndvi_estimate when   *)
(* it catches an exception.                                                *)

calculate_ndvi_estimate(latitude, longitude, climate_data) ==
    IF climate_data.humidity.none /\ climate_data.temperature >= 100
    THEN 40   \* except Exception: return 0.4
    ELSE LET abs_lat == Abs(latitude)
             temp == climate_data.temperature
             humidity == climate_data.humidity.n
             band == IF abs_lat < 20 THEN 60
                     ELSE IF abs_lat < 47 THEN 50
                     ELSE IF abs_lat < 70 THEN 40
                     ELSE IF abs_lat < 100 THEN 35
                     ELSE 20
             base_ndvi == IF temp > 250 /\ humidity > 60 THEN band + 10
                          ELSE IF temp < 100 \/ humidity < 30 THEN band - 15
                          ELSE band
             variation == Abs(longitude) % 20
         IN  Max(0, Min(100, base_ndvi + variation - 10))

analyze_soil_type(latitude, longitude, elevation) ==
    LET abs_lat == Abs(latitude)
        soil_types ==
            IF elevation > 2000 THEN <<"Rocky", "Mountain Soil", "Thin Soil">>
            ELSE IF elevation > 1000 THEN <<"Loamy", "Clay-Loam", "Sandy-Loam">>
            ELSE IF abs_lat < 20 THEN <<"Laterite", "Tropical Red", "Alluvial">>
            ELSE IF abs_lat < 60 THEN <<"Alluvial", "Loamy", "Red Soil">>
            ELSE IF abs_lat < 100 THEN <<"Loamy", "Clay", "Podzol">>
            ELSE <<"Tundra", "Permafrost", "Gleysol">>
        index == (Abs(longitude) \div 2) % Len(soil_types)
    IN  soil_types[index + 1]

\* The base_ph table of lines 222-233 is that of api_integrations.py:593-597.
calculate_soil_ph(soil_type, climate_data) ==
    LET ph == base_ph(soil_type)
        humidity == climate_data.humidity.n
    IN  IF humidity > 70 THEN ph - 3
        ELSE IF humidity < 40 THEN ph + 3
        ELSE ph

determine_climate_zone(latitude, temperature) ==
    LET abs_lat == Abs(latitude)
    IN  IF abs_lat > 133 THEN "Polar"
        ELSE IF abs_lat > 120 THEN "Subpolar"
        ELSE IF abs_lat > 90
             THEN (IF temperature > 200 THEN "Warm Temperate" ELSE "Cool Temperate")
        ELSE IF abs_lat > 60
             THEN (IF temperature > 250 THEN "Subtropical" ELSE "Warm Temperate")
        ELSE IF abs_lat > 47 THEN "Tropical"
        ELSE "Equatorial"

\* The base_rainfall table of lines 272-280 is that of api_integrations.py:617-621.
estimate_annual_rainfall(climate_zone, humidity, longitude) ==
    LET base == base_rainfall(climate_zone)
        rainfall == IF humidity > 70 THEN (base * 13) \div 10
                    ELSE IF humidity < 40 THEN (base * 6) \div 10
                    ELSE base
    IN  rainfall + (Abs(longitude) % 30) * 10

\* Lines 308-314 without the area test of lines 313-314.
degradation_extra_no_area(soil_ph, area_hectares) ==
    IF soil_ph < 50 \/ soil_ph > 85 THEN 1 ELSE 0

degradation_extra(soil_ph, area_hectares) ==
    (IF soil_ph < 50 \/ soil_ph > 85 THEN 1 ELSE 0)
    + (IF area_hectares > 100 THEN 1 ELSE 0)

assess_land_degradation(ndvi, soil_ph, area_hectares) ==
    LET ndvi_score == IF ndvi < 20 THEN 4
                      ELSE IF ndvi < 35 THEN 3
                      ELSE IF ndvi < 50 THEN 2
                      ELSE 1
        score == ndvi_score + degradation_extra(soil_ph, area_hectares)
    IN  IF score >= 5 THEN "critical"
        ELSE IF score >= 4 THEN "severe"
        ELSE IF score >= 2 THEN "moderate"
        ELSE "minimal"

\* Lines 466-471 of comprehensive_land_analysis.
soil_fertility(soil_ph, ndvi) ==
    IF 60 <= soil_ph /\ soil_ph <= 75 /\ ndvi > 50 THEN "high"
    ELSE IF ((55 <= soil_ph /\ soil_ph < 60) \/ (75 < soil_ph /\ soil_ph <= 80))
            /\ ndvi > 35 THEN "medium"
    ELSE "low"

\* crops_db of generate_recommendations; a zone that is no key raises KeyError
\* where crops_db[climate_zone] is read and gives the default in .get().
ZoneKeys == {"Equatorial", "Tropical", "Subtropical", "Warm Temperate",
             "Cool Temperate", "Subpolar", "Polar"}

crops_db(climate_zone) ==
    CASE climate_zone = "Subpolar" ->
            <<"Barley", "Potato", "Root Vegetables", "Hardy Grasses">>
      [] climate_zone = "Polar" -> <<"Hardy Grasses", "Moss">>
      [] OTHER -> service_crops(climate_zone)

trees_db(climate_zone) ==
    CASE climate_zone = "Subpolar" ->
            <<"Birch", "Willow", "Alder", "Hardy Conifers">>
      [] climate_zone = "Polar" -> <<"Dwarf Willow", "Arctic Birch">>
      [] OTHER -> service_trees(climate_zone)

NotWheatBarley(c) == c \notin {"Wheat", "Barley"}

techniques_db(degradation_level) ==
    CASE degradation_level = "minimal" ->
            <<"Regular mulching and organic matter addition",
              "Crop rotation practices",
              "Water conservation techniques",
              "Integrated pest management">>
      [] degradation_level = "moderate" ->
            <<"Contour farming and terracing",
              "Agroforestry integration",
              "Soil amendment with compost",
              "Cover cropping",
              "Erosion control structures">>
      [] degradation_level = "severe" ->
            <<"Intensive afforestation program",
              "Deep tillage and soil loosening",
              "Gabion and stone wall construction",
              "Watershed management systems",
              "Biochar application",
              "Pioneer species planting">>
      [] degradation_level = "critical" ->
            <<"Emergency restoration protocols",
              "Comprehensive soil remediation",
              "Mechanical intervention (ripping, subsoiling)",
              "Intensive irrigation system installation",
              "Rock dam and check dam construction",
              "Fast-growing pioneer species",
              "Professional consultation required">>
      [] OTHER -> <<>>

\* crops_db[climate_zone] and trees_db[climate_zone] raise KeyError for a zone
\* that is no key, on the two pH branches that index the dictionaries.
recommendations_raise(climate_zone, soil_ph) ==
    climate_zone \notin ZoneKeys /\ (soil_ph < 55 \/ soil_ph > 75)

\* Defined where recommendations_raise is false.
generate_recommendations(climate_zone, soil_type, soil_ph, degradation_level, annual_rainfall) ==
    LET crops == IF soil_ph < 55
                 THEN SelectSeq(crops_db(climate_zone), NotWheatBarley)
                      \o <<"Blueberries", "Cranberries">>
                 ELSE IF climate_zone \in ZoneKeys THEN crops_db(climate_zone)
                 ELSE <<"Consult local agronomist">>
        trees == IF soil_ph > 75 /\ ~Contains(trees_db(climate_zone), "Olive")
                 THEN trees_db(climate_zone) \o <<"Date Palm">>
                 ELSE IF climate_zone \in ZoneKeys THEN trees_db(climate_zone)
                 ELSE <<"Consult local forester">>
    IN  [crops |-> crops,
         trees |-> trees,
         techniques |-> techniques_db(degradation_level),
         timeline_months |-> timeline_map(degradation_level),
         budget_per_hectare |-> budget_per_hectare(degradation_level, annual_rainfall)]

-----------------------------------------------------------------------------
(* NASA POWER client (app/api_integrations.py, class NASAPowerAPI).        *)
(* A date key 'YYYYMMDD' is the sequence of its digits; a metric series of *)
(* the payload is a dict, modelled as the sequence of its (key, value)     *)
(* items in the order the source sent them, keys distinct. A metric the    *)
(* payload does not name is [present |-> FALSE, items |-> <<>>].           *)

Metrics == {"T2M", "PRECTOTCORR", "RH2M", "WS2M", "ALLSKY_SFC_SW_DWN"}

\* Python's < on two strings of digits.
RECURSIVE StrLess(_, _)
StrLess(a, b) ==
    IF a = <<>> THEN b # <<>>
    ELSE IF b = <<>> THEN FALSE
    ELSE IF Head(a) # Head(b) THEN Head(a) < Head(b)
    ELSE StrLess(Tail(a), Tail(b))

\* One step of sorted(): kv placed before the first item with a greater key.
RECURSIVE InsertItem(_, _)
InsertItem(kv, sorted) ==
    IF sorted = <<>> THEN <<kv>>
    ELSE IF StrLess(kv[1], Head(sorted)[1]) THEN <<kv>> \o sorted
    ELSE <<Head(sorted)>> \o InsertItem(kv, Tail(sorted))

RECURSIVE SortedItems(_)
SortedItems(items) ==
    IF items = <<>> THEN <<>>
    ELSE InsertItem(items[Len(items)], SortedItems(SubSeq(items, 1, Len(items) - 1)))

\* ordered_series without the sort: the items in the order of the dict.
unordered_items(series) == IF series.present THEN series.items ELSE <<>>

\* sorted(series.items(), key=lambda kv: kv[0]); [] for a missing or empty series.
ordered_items(series) == IF series.present THEN SortedItems(series.items) ELSE <<>>

\* ordered_series(param_name): (dates, values)
ordered_series(parameters, param_name) ==
    LET items == ordered_items(parameters[param_name])
    IN  [dates |-> [i \in 1..Len(items) |-> items[i][1]],
         values |-> [i \in 1..Len(items) |-> items[i][2]]]

HasNone(values) == \E i \in 1..Len(values) : values[i].none

Numbers(values) == [i \in 1..Len(values) |-> values[i].n]

RECURSIVE SeqMin(_)
SeqMin(arr) == IF Len(arr) = 1 THEN arr[1] ELSE Min(Head(arr), SeqMin(Tail(arr)))

RECURSIVE SeqMax(_)
SeqMax(arr) == IF Len(arr) = 1 THEN arr[1] ELSE Max(Head(arr), SeqMax(Tail(arr)))

\* sum(arr) / len(arr) as the exact fraction; the literal 0 is 0/1.
Avg(arr) == IF arr = <<>> THEN [num |-> 0, den |-> 1]
            ELSE [num |-> Sum(arr), den |-> Len(arr)]

safe_stats(arr) ==
    IF arr = <<>> THEN [avg |-> [num |-> 0, den |-> 1], min |-> 0, max |-> 0, current |-> 0]
    ELSE [avg |-> Avg(arr), min |-> SeqMin(arr), max |-> SeqMax(arr),
          current |-> arr[Len(arr)]]

NoClimate == [none |-> TRUE]

CountPositive(arr) == Cardinality({i \in 1..Len(arr) : arr[i] > 0})

\* raw_data: [shape, parameter]. shape "ok": properties.parameter is the record
\* `parameter` of the five series; a payload on which .get() fails (properties
\* is null, the body is a list) has shape "bad" and raises in line 143.
_process_climate_data(raw_data) ==
    IF raw_data.shape # "ok" THEN NoClimate                 \* except: return None
    ELSE LET parameters == raw_data.parameter
         IN  IF \A m \in Metrics : ~parameters[m].present THEN NoClimate
             ELSE LET t2m == ordered_series(parameters, "T2M")
                      rain == ordered_series(parameters, "PRECTOTCORR").values
                      rh2m == ordered_series(parameters, "RH2M").values
                      ws2m == ordered_series(parameters, "WS2M").values
                      solar == ordered_series(parameters, "ALLSKY_SFC_SW_DWN").values
                  IN  \* sum(), min() and max() raise TypeError on a None value
                      IF HasNone(t2m.values) \/ HasNone(rain) \/ HasNone(rh2m)
                         \/ HasNone(ws2m) \/ HasNone(solar)
                      THEN NoClimate
                      ELSE LET temps == Numbers(t2m.values)
                               rainfall == Numbers(rain)
                               humidity == Numbers(rh2m)
                               wind_speed == Numbers(ws2m)
                               solar_rad == Numbers(solar)
                           IN  [none |-> FALSE,
                                temperature |-> safe_stats(temps),
                                rainfall |-> [total |-> Sum(rainfall),
                                              avg_daily |-> Avg(rainfall),
                                              days_with_rain |-> CountPositive(rainfall)],
                                humidity |-> [avg |-> Avg(humidity),
                                              current |-> IF humidity = <<>> THEN 0
                                                          ELSE humidity[Len(humidity)]],
                                wind_speed |-> [avg |-> Avg(wind_speed)],
                                solar_radiation |-> [avg |-> Avg(solar_rad)],
                                time_series |-> [dates |-> t2m.dates,
                                                 temperature |-> temps,
                                                 rainfall |-> rainfall,
                                                 humidity |-> humidity,
                                                 wind_speed |-> wind_speed,
                                                 solar_radiation |-> solar_rad]]

-----------------------------------------------------------------------------
(* What _http_get hands to a client: the response it returned (status and  *)
(* body), or the exception it re-raised after every attempt raised.        *)

HttpRaised == [raised |-> TRUE, status |-> 0]

HttpResponse(status) == [raised |-> FALSE, status |-> status]

\* get_climate_data: the processed payload on 200, None otherwise.
get_climate_data(latitude, longitude, http, raw_data) ==
    IF http.raised THEN NoClimate                            \* except: return None
    ELSE IF http.status = 200 THEN _process_climate_data(raw_data)
    ELSE NoClimate

\* base_temp = max(min(30 - abs_lat * 0.6, 45), -20), in tenths of a degree.
fallback_temp(latitude) == Max(Min(300 - 3 * Abs(latitude), 450), -200)

\* int(70 + abs(longitude) % 20) in the tropics, int(50 + abs(longitude) % 30)
\* elsewhere; longitude in half-degrees.
fallback_humidity(latitude, longitude) ==
    IF Abs(latitude) < 47 THEN 70 + (Abs(longitude) % 40) \div 2
    ELSE 50 + (Abs(longitude) % 60) \div 2

\* sunrise and sunset are the hour of the day of the timestamp.
_get_fallback_weather(latitude, longitude) ==
    [temperature |-> fallback_temp(latitude),
     feels_like |-> fallback_temp(latitude) + 20,
     humidity |-> Num(fallback_humidity(latitude, longitude)),
     pressure |-> 1013,
     description |-> "estimated",
     wind_speed |-> 0,
     clouds |-> 50,
     visibility |-> 10,
     sunrise |-> Num(6),
     sunset |-> Num(18)]

\* The body of a 200 response of the weather service. shape "ok": main.temp is
\* the number `temp`; main.humidity is `humidity` (a number or null) when
\* has_humidity, else the key is absent; `sys` is present or not. On any other
\* shape (the body is no JSON, main is missing, main.temp is null, sys lacks
\* sunrise) lines 230-242 raise.
weather_parse_raises(data) == data.shape # "ok"

weather_from_payload(data) ==
    [temperature |-> data.temp,
     feels_like |-> data.temp,
     humidity |-> IF data.has_humidity THEN data.humidity ELSE Num(0),
     pressure |-> 0,
     description |-> "",
     wind_speed |-> 0,
     clouds |-> 0,
     visibility |-> 10,
     sunrise |-> IF data.has_sys THEN Num(6) ELSE None,
     sunset |-> IF data.has_sys THEN Num(18) ELSE None]

get_current_weather(latitude, longitude, api_key, http, data) ==
    IF ~api_key THEN _get_fallback_weather(latitude, longitude)
    ELSE IF http.raised THEN _get_fallback_weather(latitude, longitude)
    ELSE IF http.status = 200
         THEN (IF weather_parse_raises(data)
               THEN _get_fallback_weather(latitude, longitude)
               ELSE weather_from_payload(data))
    ELSE _get_fallback_weather(latitude, longitude)

\* f"{latitude:.4f}, {longitude:.4f}"
CoordinateString(latitude, longitude) ==
    [kind |-> "coordinates", latitude |-> latitude, longitude |-> longitude,
     parts |-> <<>>]

\* ', '.join(parts): the parts of the address that are present, in the order
\* town or city, county, state, country. shape "bad": lines 291-302 raise.
reverse_geocode(latitude, longitude, http, data) ==
    IF http.raised THEN CoordinateString(latitude, longitude)
    ELSE IF http.status = 200
         THEN (IF data.shape # "ok" THEN CoordinateString(latitude, longitude)
               ELSE IF data.parts = <<>> THEN CoordinateString(latitude, longitude)
               ELSE [kind |-> "place", latitude |-> latitude,
                     longitude |-> longitude, parts |-> data.parts])
    ELSE CoordinateString(latitude, longitude)

\* The body of a 200 response of the elevation service. shape "ok":
\* results[0]; has_elevation says whether it has the key, `elevation` is its
\* value (a number or null). shape "empty": no results. shape "bad": raises.
get_elevation(latitude, longitude, http, data) ==
    IF http.raised THEN Num(0)                               \* except: return 0
    ELSE IF http.status = 200
         THEN (IF data.shape = "bad" THEN Num(0)
               ELSE IF data.shape = "empty" THEN Num(0)
               \* data['results'][0].get('elevation', 0)
               ELSE IF data.has_elevation THEN data.elevation
               ELSE Num(0))
    ELSE Num(0)

-----------------------------------------------------------------------------
(* The clients of app/projects.py: plain requests.get, no retry.           *)

\* base_temp = 30 - (abs_lat * 0.6), not clamped; tenths of a degree.
get_fallback_climate_data(latitude, longitude) ==
    [temperature |-> 300 - 3 * Abs(latitude),
     humidity |-> Num(fallback_humidity(latitude, longitude)),
     pressure |-> 1013,
     description |-> "estimated",
     wind_speed |-> 0]

\* not OPENWEATHER_API_KEY or OPENWEATHER_API_KEY == 'your_key_here'
key_not_configured(api_key) == api_key \in {"", "your_key_here"}

\* The body of a 200 response. shape "ok": main.temp is a number, main.pressure
\* and weather[0].description are present, main.humidity is `humidity` (a
\* number or null) when has_humidity. data['main']['humidity'] raises KeyError
\* when the key is absent; every other shape raises too.
climate_parse_raises(data) == data.shape # "ok" \/ ~data.has_humidity

get_real_climate_data(latitude, longitude, api_key, http, data) ==
    IF key_not_configured(api_key)
    THEN get_fallback_climate_data(latitude, longitude)
    ELSE IF http.raised THEN get_fallback_climate_data(latitude, longitude)
    ELSE IF http.status = 200
         THEN (IF climate_parse_raises(data)
               THEN get_fallback_climate_data(latitude, longitude)
               ELSE [temperature |-> data.temp,
                     humidity |-> data.humidity,
                     pressure |-> data.pressure,
                     description |-> data.description,
                     wind_speed |-> 0])
    ELSE get_fallback_climate_data(latitude, longitude)

get_elevation_data(latitude, longitude, http, data) ==
    IF http.raised THEN Num(0)                               \* except: return 0
    ELSE IF http.status = 200
         THEN (IF data.shape = "bad" THEN Num(0)
               ELSE IF data.shape = "empty" THEN Num(0)
               ELSE IF data.has_elevation THEN data.elevation
               ELSE Num(0))
    ELSE Num(0)

-----------------------------------------------------------------------------
(* The two analysis pipelines, from the values the clients returned.       *)

NoAnalysis == [none |-> TRUE]

\* A None elevation raises TypeError in _analyze_soil_type (elevation > 2000),
\* a None humidity in _calculate_soil_ph (humidity > 70): analyze_location
\* catches it and returns None (lines 503-506).
analysis_raises(weather, elevation) == elevation.none \/ weather.humidity.none

\* Lines 452-506 of analyze_location.
service_analysis(latitude, longitude, area_hectares, location_name, weather, climate_history, elevation) ==
    IF analysis_raises(weather, elevation) THEN NoAnalysis
    ELSE LET ndvi == _estimate_ndvi(latitude, longitude, weather, climate_history)
             climate_zone == _determine_climate_zone(latitude, weather.temperature)
             soil_type == _analyze_soil_type(latitude, longitude, elevation.n)
             soil_ph == _calculate_soil_ph(soil_type, weather)
             annual_rainfall == _estimate_annual_rainfall(climate_zone,
                                    weather.humidity.n, longitude)
             degradation_level == _assess_degradation(ndvi, soil_ph, area_hectares)
             recommendations == _generate_recommendations(climate_zone, soil_type,
                                    soil_ph, degradation_level, annual_rainfall)
         IN  [none |-> FALSE,
              location_name |-> location_name,
              latitude |-> latitude,
              longitude |-> longitude,
              elevation |-> elevation.n,
              current_weather |-> weather,
              climate_history |-> climate_history,
              climate_zone |-> climate_zone,
              annual_rainfall |-> annual_rainfall,
              soil_type |-> soil_type,
              soil_ph |-> soil_ph,
              soil_fertility |-> _calculate_fertility(soil_ph, ndvi),
              vegetation_index |-> ndvi,
              land_degradation_level |-> degradation_level,
              recommended_crops |-> recommendations.crops,
              recommended_trees |-> recommendations.trees,
              restoration_techniques |-> recommendations.techniques,
              estimated_timeline_months |-> recommendations.timeline_months,
              estimated_budget |-> recommendations.budget_per_hectare * area_hectares]

\* Lines 440-512 of comprehensive_land_analysis: estimate_annual_rainfall
\* raises on a None humidity, analyze_soil_type on a None elevation.
projects_analysis(latitude, longitude, area_hectares, climate_data, elevation) ==
    IF analysis_raises(climate_data, elevation) THEN NoAnalysis
    ELSE LET climate_zone == determine_climate_zone(latitude, climate_data.temperature)
             annual_rainfall == estimate_annual_rainfall(climate_zone,
                                    climate_data.humidity.n, longitude)
             soil_type == analyze_soil_type(latitude, longitude, elevation.n)
             soil_ph == calculate_soil_ph(soil_type, climate_data)
             ndvi == calculate_ndvi_estimate(latitude, longitude, climate_data)
             degradation_level == assess_land_degradation(ndvi, soil_ph, area_hectares)
             recommendations == generate_recommendations(climate_zone, soil_type,
                                    soil_ph, degradation_level, annual_rainfall)
         IN  [none |-> FALSE,
              soil_type |-> soil_type,
              soil_ph |-> soil_ph,
              soil_fertility |-> soil_fertility(soil_ph, ndvi),
              climate_zone |-> climate_zone,
              annual_rainfall |-> annual_rainfall,
              temperature |-> climate_data.temperature,
              humidity |-> climate_data.humidity.n,
              elevation |-> elevation.n,
              vegetation_index |-> ndvi,
              land_degradation_level |-> degradation_level,
              recommended_crops |-> Take(recommendations.crops, 5),
              recommended_trees |-> Take(recommendations.trees, 5),
              restoration_techniques |-> recommendations.techniques,
              estimated_timeline_months |-> recommendations.timeline_months,
              estimated_budget |-> recommendations.budget_per_hectare * area_hectares]

-----------------------------------------------------------------------------
(* SpecEstimators: the derivation chain of both pipelines applied to       *)
(* numeric inputs (no client failure).                                     *)

\* Sampling strides of the coordinate grids, in half-degrees.
LatStride == 60

LonStride == 180

\* Every band edge of the estimators, both sides and both hemispheres.
LatEdges == {0, 19, 20, 46, 47, 48, 59, 60, 61, 69, 70, 90, 91, 99, 100,
             120, 121, 133, 134, 180, -20, -134}

LatSamples == LatEdges \cup {l \in -180..180 : l % LatStride = 0}

\* Longitudes covering every residue the estimators read.
LonEdges == {0, 1, 5, 19, 58, -3}

LonSamples == LonEdges \cup {l \in -360..360 : l % LonStride = 0}

TempSamples == {99, 100, 200, 201, 250, 251}

HumiditySamples == {29, 30, 39, 40, 60, 61, 70, 71}

ElevationSamples == {1000, 1001, 2000, 2001}

AreaSamples == {100, 101}

\* Temperature series of a climate history, in degrees.
TempSeriesSamples ==
    {<<>>, <<20, 24>>, <<20, 25>>, <<26, 20, 20>>, <<27, 20, 20>>}

EstIdle == [pc |-> "idle"]

DegIdle == [pc |-> "idle"]

ClimIdle == [pc |-> "idle"]

CliIdle == [pc |-> "idle"]

AnaIdle == [pc |-> "idle"]

RecIdle == [pc |-> "idle"]

TrdIdle == [pc |-> "idle"]

AlrIdle == [pc |-> "idle"]

PrjIdle == [pc |-> "idle"]

PcdIdle == [pc |-> "idle"]

StaIdle == [pc |-> "idle"]

RstIdle == [pc |-> "idle"]

FerIdle == [pc |-> "idle"]

ClimateOf(temps) ==
    [none |-> FALSE, time_series |-> [temperature |-> temps]]

EstInit ==
    /\ est \in [pc : {"call"}, latitude : LatSamples, longitude : LonSamples,
                temperature : TempSamples, humidity : HumiditySamples,
                elevation : ElevationSamples, area_hectares : AreaSamples,
                impl : {"none"}, out : {NoAnalysis}]
    /\ deg = DegIdle /\ clim = ClimIdle /\ cli = CliIdle /\ ana = AnaIdle
    /\ rec = RecIdle /\ trd = TrdIdle /\ alr = AlrIdle /\ prj = PrjIdle
    /\ pcd = PcdIdle /\ sta = StaIdle /\ rst = RstIdle /\ fer = FerIdle
EstWeather == [temperature |-> est.temperature, humidity |-> Num(est.humidity)]

\* analyze_location once the clients returned numbers.
EstimateService ==
    /\ est.pc = "call"
    /\ \E history \in {NoClimate} \cup {ClimateOf(t) : t \in TempSeriesSamples} :
          est' = [est EXCEPT !.pc = "done", !.impl = "service",
                     !.out = service_analysis(est.latitude, est.longitude,
                                 est.area_hectares, "", EstWeather, history,
                                 Num(est.elevation))]
    /\ UNCHANGED <<deg, clim, cli, ana, rec, trd, alr, prj, pcd, sta, rst, fer>>

\* comprehensive_land_analysis once the clients returned numbers.
EstimateProjects ==
    /\ est.pc = "call"
    /\ est' = [est EXCEPT !.pc = "done", !.impl = "projects",
                  !.out = projects_analysis(est.latitude, est.longitude,
                              est.area_hectares, EstWeather, Num(est.elevation))]
    /\ UNCHANGED <<deg, clim, cli, ana, rec, trd, alr, prj, pcd, sta, rst, fer>>

EstNext == EstimateService \/ EstimateProjects

SpecEstimators == EstInit /\ [][EstNext]_vars

-----------------------------------------------------------------------------
(* SpecDegradation: two successive calls of one degradation estimator.    *)

NdviSamples == {0, 19, 20, 34, 35, 49, 50, 51, 100}

PhSamples == {49, 50, 85, 86}

DegInputs == [ndvi : NdviSamples, soil_ph : PhSamples, area_hectares : AreaSamples]

DegInit ==
    /\ deg \in [pc : {"first"}, impl : {"service", "projects"},
                first : DegInputs, second : DegInputs,
                level1 : {"unset"}, level2 : {"unset"}]
    /\ est = EstIdle /\ clim = ClimIdle /\ cli = CliIdle /\ ana = AnaIdle
    /\ rec = RecIdle /\ trd = TrdIdle /\ alr = AlrIdle /\ prj = PrjIdle
    /\ pcd = PcdIdle /\ sta = StaIdle /\ rst = RstIdle /\ fer = FerIdle
\* The inputs of the call that is due: the first, then the second.
DegDue == IF deg.pc = "first" THEN deg.first ELSE deg.second

DegReturn(level) ==
    IF deg.pc = "first" THEN [deg EXCEPT !.pc = "second", !.level1 = level]
    ELSE [deg EXCEPT !.pc = "done", !.level2 = level]

\* LandAnalysisService._assess_degradation(ndvi, soil_ph, area_hectares)
AssessDegradation ==
    /\ deg.impl = "service" /\ deg.pc \in {"first", "second"}
    /\ deg' = DegReturn(_assess_degradation(DegDue.ndvi, DegDue.soil_ph,
                                            DegDue.area_hectares))
    /\ UNCHANGED <<est, clim, cli, ana, rec, trd, alr, prj, pcd, sta, rst, fer>>

\* projects.assess_land_degradation(ndvi, soil_ph, area_hectares)
AssessLandDegradation ==
    /\ deg.impl = "projects" /\ deg.pc \in {"first", "second"}
    /\ deg' = DegReturn(assess_land_degradation(DegDue.ndvi, DegDue.soil_ph,
                                                DegDue.area_hectares))
    /\ UNCHANGED <<est, clim, cli, ana, rec, trd, alr, prj, pcd, sta, rst, fer>>

DegNext == AssessDegradation \/ AssessLandDegradation

SpecDegradation == DegInit /\ [][DegNext]_vars

-----------------------------------------------------------------------------
(* SpecClimate: _process_climate_data on payloads whose series come in any *)
(* key order.                                                              *)

\* Longest metric series of a payload.
MaxSeriesLen == 3

\* '20231231' < '20240102' < '20240110' as dates and as strings.
DateKeys == {<<2, 0, 2, 3, 1, 2, 3, 1>>, <<2, 0, 2, 4, 0, 1, 0, 2>>,
             <<2, 0, 2, 4, 0, 1, 1, 0>>}

ReadingSamples == {Num(0), Num(7), None}

DistinctKeys(items) ==
    \A i, j \in 1..Len(items) : i # j => items[i][1] # items[j][1]

\* Every dict of at most maxlen items over the keys and values, in every order.
DictsOver(keys, values, maxlen) ==
    {items \in UNION {[1..n -> keys \X values] : n \in 0..maxlen} :
        DistinctKeys(items)}

Absent == [present |-> FALSE, items |-> <<>>]

Present(items) == [present |-> TRUE, items |-> items]

T2MSamples ==
    {Absent} \cup {Present(d) : d \in DictsOver(DateKeys, ReadingSamples, MaxSeriesLen)}

\* Humidity series over two of the dates: RH2M may cover other dates than T2M.
RH2MSamples ==
    {Absent} \cup {Present(d) : d \in DictsOver(
        {<<2, 0, 2, 4, 0, 1, 0, 2>>, <<2, 0, 2, 4, 0, 1, 1, 0>>}, {Num(40), Num(80)}, 2)}

OtherSeriesSamples ==
    {Absent,
     Present(<< <<(<<2, 0, 2, 4, 0, 1, 1, 0>>), Num(3)>>,
                <<(<<2, 0, 2, 3, 1, 2, 3, 1>>), Num(0)>> >>)}

RawDataSamples ==
    {[shape |-> "bad", parameter |-> [m \in Metrics |-> Absent]]}
    \cup
    {[shape |-> "ok",
      parameter |-> [m \in Metrics |->
          CASE m = "T2M" -> t
            [] m = "RH2M" -> h
            [] m = "PRECTOTCORR" -> r
            [] OTHER -> w]] :
        t \in T2MSamples, h \in RH2MSamples, r \in OtherSeriesSamples,
        w \in OtherSeriesSamples}

ClimInit ==
    /\ clim \in [pc : {"call"}, raw_data : RawDataSamples, result : {NoClimate}]
    /\ est = EstIdle /\ deg = DegIdle /\ cli = CliIdle /\ ana = AnaIdle
    /\ rec = RecIdle /\ trd = TrdIdle /\ alr = AlrIdle /\ prj = PrjIdle
    /\ pcd = PcdIdle /\ sta = StaIdle /\ rst = RstIdle /\ fer = FerIdle
\* NASAPowerAPI._process_climate_data(raw_data)
ProcessClimateData ==
    /\ clim.pc = "call"
    /\ clim' = [clim EXCEPT !.pc = "done",
                   !.result = _process_climate_data(clim.raw_data)]
    /\ UNCHANGED <<est, deg, cli, ana, rec, trd, alr, prj, pcd, sta, rst, fer>>

ClimNext == ProcessClimateData

SpecClimate == ClimInit /\ [][ClimNext]_vars

-----------------------------------------------------------------------------
(* SpecClients: one call of a client, or of _http_get / _http_post alone,  *)
(* attempt by attempt. Each attempt's outcome is the environment's choice. *)

\* retries=3 and backoff_factor=0.5 (seconds; here milliseconds) of line 52.
retries == 3

backoff_factor == 500

\* resp.status_code in (429, 500, 502, 503, 504)
RetryStatuses == {429, 500, 502, 503, 504}

\* Statuses that are neither 200 nor retried.
OtherStatuses == {400, 401, 404}

\* The backoff with attempt in place of 2 ** (attempt - 1).
sleep_time_linear(attempt) == backoff_factor * attempt

\* sleep_time = backoff_factor * (2 ** (attempt - 1)), attempt already incremented
sleep_time(attempt) == backoff_factor * 2 ^ (attempt - 1)

Clients == {"get_climate_data", "get_current_weather", "reverse_geocode",
            "get_elevation"}

RawCalls == {"_http_get", "_http_post"}

NoBody == [shape |-> "none"]

ClimatePayloads ==
    {[shape |-> "bad", parameter |-> [m \in Metrics |-> Absent]],
     [shape |-> "ok", parameter |-> [m \in Metrics |-> Absent]],
     [shape |-> "ok", parameter |-> [m \in Metrics |->
         IF m = "RH2M"
         THEN Present(<< <<(<<2, 0, 2, 4, 0, 1, 0, 2>>), Num(40)>> >>)
         ELSE Absent]],
     [shape |-> "ok", parameter |-> [m \in Metrics |->
         Present(<< <<(<<2, 0, 2, 4, 0, 1, 1, 0>>), Num(7)>>,
                    <<(<<2, 0, 2, 3, 1, 2, 3, 1>>), Num(3)>> >>)]]}

WeatherPayloads ==
    {[shape |-> "bad", temp |-> 0, has_humidity |-> FALSE, humidity |-> None,
      has_sys |-> FALSE],
     [shape |-> "ok", temp |-> 215, has_humidity |-> TRUE, humidity |-> Num(55),
      has_sys |-> TRUE],
     [shape |-> "ok", temp |-> 215, has_humidity |-> TRUE, humidity |-> None,
      has_sys |-> TRUE],
     [shape |-> "ok", temp |-> 215, has_humidity |-> FALSE, humidity |-> None,
      has_sys |-> TRUE],
     [shape |-> "ok", temp |-> 215, has_humidity |-> TRUE, humidity |-> Num(55),
      has_sys |-> FALSE]}

GeocodePayloads ==
    {[shape |-> "bad", parts |-> <<>>],
     [shape |-> "ok", parts |-> <<>>],
     [shape |-> "ok", parts |-> <<"Nakuru", "Kenya">>]}

ElevationPayloads ==
    {[shape |-> "bad", has_elevation |-> FALSE, elevation |-> None],
     [shape |-> "empty", has_elevation |-> FALSE, elevation |-> None],
     [shape |-> "ok", has_elevation |-> FALSE, elevation |-> None],
     [shape |-> "ok", has_elevation |-> TRUE, elevation |-> Num(1850)],
     [shape |-> "ok", has_elevation |-> TRUE, elevation |-> None]}

\* The body is read only from a 200 response.
BodiesOf(http, payloads) ==
    IF ~http.raised /\ http.status = 200 THEN payloads ELSE {NoBody}

ClientLatitudes == {0, 94, -180}

ClientLongitudes == {0, 59}

CliInit ==
    /\ \E client \in Clients \cup RawCalls :
       \E latitude \in ClientLatitudes, longitude \in ClientLongitudes :
       \E api_key \in BOOLEAN :
          /\ client \in RawCalls => latitude = 0 /\ longitude = 0
          /\ client # "get_current_weather" => api_key
          /\ cli = [pc |-> "call", client |-> client, latitude |-> latitude,
                    longitude |-> longitude, api_key |-> api_key,
                    attempt |-> 0, resp |-> None, outcomes |-> <<>>,
                    sleeps |-> <<>>, http |-> HttpRaised, data |-> NoBody,
                    result |-> NoBody]
    /\ est = EstIdle /\ deg = DegIdle /\ clim = ClimIdle /\ ana = AnaIdle
    /\ rec = RecIdle /\ trd = TrdIdle /\ alr = AlrIdle /\ prj = PrjIdle
    /\ pcd = PcdIdle /\ sta = StaIdle /\ rst = RstIdle /\ fer = FerIdle
\* get_current_weather, lines 214-216: no API key, no request.
GetCurrentWeatherNoKey ==
    /\ cli.pc = "call" /\ cli.client = "get_current_weather" /\ ~cli.api_key
    /\ cli' = [cli EXCEPT !.pc = "returned",
                  !.result = get_current_weather(cli.latitude, cli.longitude,
                                 FALSE, HttpRaised, NoBody)]
    /\ UNCHANGED <<est, deg, clim, ana, rec, trd, alr, prj, pcd, sta, rst, fer>>

\* The call of _http_get (or _http_post): attempt = 0.
HttpCall ==
    /\ cli.pc = "call" /\ cli.api_key
    /\ cli' = [cli EXCEPT !.pc = "loop", !.attempt = 0]
    /\ UNCHANGED <<est, deg, clim, ana, rec, trd, alr, prj, pcd, sta, rst, fer>>

\* One pass of the loop with a 200 response: return resp.
HttpAttemptOk ==
    /\ cli.pc = "loop" /\ cli.attempt < retries
    /\ cli' = [cli EXCEPT !.pc = "http_done",
                  !.resp = Num(200),
                  !.outcomes = Append(@, HttpResponse(200)),
                  !.http = HttpResponse(200)]
    /\ UNCHANGED <<est, deg, clim, ana, rec, trd, alr, prj, pcd, sta, rst, fer>>

\* One pass with a transient status: attempt += 1, sleep, continue.
HttpAttemptRetryStatus ==
    /\ cli.pc = "loop" /\ cli.attempt < retries
    /\ \E status \in RetryStatuses :
          cli' = [cli EXCEPT !.attempt = @ + 1,
                     !.resp = Num(status),
                     !.outcomes = Append(@, HttpResponse(status)),
                     !.sleeps = Append(@, sleep_time(cli.attempt + 1))]
    /\ UNCHANGED <<est, deg, clim, ana, rec, trd, alr, prj, pcd, sta, rst, fer>>

\* One pass with any other status: return resp.
HttpAttemptOtherStatus ==
    /\ cli.pc = "loop" /\ cli.attempt < retries
    /\ \E status \in OtherStatuses :
          cli' = [cli EXCEPT !.pc = "http_done",
                     !.resp = Num(status),
                     !.outcomes = Append(@, HttpResponse(status)),
                     !.http = HttpResponse(status)]
    /\ UNCHANGED <<est, deg, clim, ana, rec, trd, alr, prj, pcd, sta, rst, fer>>

\* One pass in which the request raises: attempt += 1, sleep; resp keeps the
\* response of an earlier pass, if there was one.
HttpAttemptException ==
    /\ cli.pc = "loop" /\ cli.attempt < retries
    /\ cli' = [cli EXCEPT !.attempt = @ + 1,
                  !.outcomes = Append(@, HttpRaised),
                  !.sleeps = Append(@, sleep_time(cli.attempt + 1))]
    /\ UNCHANGED <<est, deg, clim, ana, rec, trd, alr, prj, pcd, sta, rst, fer>>

\* Lines 72-76: the loop ended; return the last response if one is bound,
\* else raise the last exception.
HttpExhausted ==
    /\ cli.pc = "loop" /\ cli.attempt >= retries
    /\ cli' = [cli EXCEPT !.pc = "http_done",
                  !.http = IF cli.resp.none THEN HttpRaised
                           ELSE HttpResponse(cli.resp.n)]
    /\ UNCHANGED <<est, deg, clim, ana, rec, trd, alr, prj, pcd, sta, rst, fer>>

\* _http_get or _http_post called alone: the response, or the exception.
HttpReturn ==
    /\ cli.pc = "http_done" /\ cli.client \in RawCalls
    /\ cli' = [cli EXCEPT !.pc = "returned", !.result = cli.http]
    /\ UNCHANGED <<est, deg, clim, ana, rec, trd, alr, prj, pcd, sta, rst, fer>>

GetClimateData ==
    /\ cli.pc = "http_done" /\ cli.client = "get_climate_data"
    /\ \E data \in BodiesOf(cli.http, ClimatePayloads) :
          cli' = [cli EXCEPT !.pc = "returned", !.data = data,
                     !.result = get_climate_data(cli.latitude, cli.longitude,
                                    cli.http, data)]
    /\ UNCHANGED <<est, deg, clim, ana, rec, trd, alr, prj, pcd, sta, rst, fer>>

GetCurrentWeather ==
    /\ cli.pc = "http_done" /\ cli.client = "get_current_weather"
    /\ \E data \in BodiesOf(cli.http, WeatherPayloads) :
          cli' = [cli EXCEPT !.pc = "returned", !.data = data,
                     !.result = get_current_weather(cli.latitude, cli.longitude,
                                    TRUE, cli.http, data)]
    /\ UNCHANGED <<est, deg, clim, ana, rec, trd, alr, prj, pcd, sta, rst, fer>>

ReverseGeocode ==
    /\ cli.pc = "http_done" /\ cli.client = "reverse_geocode"
    /\ \E data \in BodiesOf(cli.http, GeocodePayloads) :
          cli' = [cli EXCEPT !.pc = "returned", !.data = data,
                     !.result = reverse_geocode(cli.latitude, cli.longitude,
                                    cli.http, data)]
    /\ UNCHANGED <<est, deg, clim, ana, rec, trd, alr, prj, pcd, sta, rst, fer>>

GetElevation ==
    /\ cli.pc = "http_done" /\ cli.client = "get_elevation"
    /\ \E data \in BodiesOf(cli.http, ElevationPayloads) :
          cli' = [cli EXCEPT !.pc = "returned", !.data = data,
                     !.result = get_elevation(cli.latitude, cli.longitude,
                                    cli.http, data)]
    /\ UNCHANGED <<est, deg, clim, ana, rec, trd, alr, prj, pcd, sta, rst, fer>>

CliNext ==
    \/ GetCurrentWeatherNoKey
    \/ HttpCall
    \/ HttpAttemptOk
    \/ HttpAttemptRetryStatus
    \/ HttpAttemptOtherStatus
    \/ HttpAttemptException
    \/ HttpExhausted
    \/ HttpReturn
    \/ GetClimateData
    \/ GetCurrentWeather
    \/ ReverseGeocode
    \/ GetElevation

SpecClients == CliInit /\ [][CliNext]_vars

-----------------------------------------------------------------------------
(* SpecAnalysis: one analysis request, for coordinates and areas inside    *)
(* and outside their ranges, under every outcome of the clients.           *)

\* What _http_get, or requests.get, can hand to a client.
HttpResults ==
    {HttpRaised} \cup
    {HttpResponse(status) : status \in {200} \cup OtherStatuses \cup RetryStatuses}

ProjectsWeatherPayloads ==
    {[shape |-> "bad", temp |-> 0, has_humidity |-> FALSE, humidity |-> None,
      pressure |-> 0, description |-> ""],
     [shape |-> "ok", temp |-> 215, has_humidity |-> TRUE, humidity |-> Num(55),
      pressure |-> 1009, description |-> "scattered clouds"],
     [shape |-> "ok", temp |-> 215, has_humidity |-> TRUE, humidity |-> None,
      pressure |-> 1009, description |-> "scattered clouds"],
     [shape |-> "ok", temp |-> 215, has_humidity |-> FALSE, humidity |-> None,
      pressure |-> 1009, description |-> "scattered clouds"]}

\* Everything each client can return for a location.
GeocodeReturns(latitude, longitude) ==
    {reverse_geocode(latitude, longitude, http, data) :
        http \in HttpResults, data \in GeocodePayloads}

WeatherReturns(latitude, longitude) ==
    {get_current_weather(latitude, longitude, api_key, http, data) :
        api_key \in BOOLEAN, http \in HttpResults, data \in WeatherPayloads}

HistoryReturns(latitude, longitude) ==
    {get_climate_data(latitude, longitude, http, data) :
        http \in HttpResults, data \in ClimatePayloads}

ElevationReturns(latitude, longitude) ==
    {get_elevation(latitude, longitude, http, data) :
        http \in HttpResults, data \in ElevationPayloads}

ClimateDataReturns(latitude, longitude) ==
    {get_real_climate_data(latitude, longitude, api_key, http, data) :
        api_key \in {"", "your_key_here", "k"}, http \in HttpResults,
        data \in ProjectsWeatherPayloads}

ElevationDataReturns(latitude, longitude) ==
    {get_elevation_data(latitude, longitude, http, data) :
        http \in HttpResults, data \in ElevationPayloads}

\* Latitudes and longitudes in half-degrees; 190 is 95 degrees, 362 is 181.
RequestLatitudes == {0, 47, 94, -130, 180, 190, -181}

RequestLongitudes == {0, 59, -360, 362}

RequestAreas == {-5, 0, 10, 150}

NoWeather == [description |-> "none"]

AnaInit ==
    /\ ana \in [pc : {"call"}, latitude : RequestLatitudes,
                longitude : RequestLongitudes, area_hectares : RequestAreas,
                entry : {"none"}, fetches : {0}, weather : {NoWeather},
                elevation : {None}, result : {NoAnalysis}, status : {0}]
    /\ est = EstIdle /\ deg = DegIdle /\ clim = ClimIdle /\ cli = CliIdle
    /\ rec = RecIdle /\ trd = TrdIdle /\ alr = AlrIdle /\ prj = PrjIdle
    /\ pcd = PcdIdle /\ sta = StaIdle /\ rst = RstIdle /\ fer = FerIdle
\* LandAnalysisService.analyze_location(latitude, longitude, area_hectares):
\* the four clients are called, then the derivation chain.
AnalyzeLocation ==
    /\ ana.pc = "call"
    /\ \E location_name \in GeocodeReturns(ana.latitude, ana.longitude),
          weather \in WeatherReturns(ana.latitude, ana.longitude),
          climate_history \in HistoryReturns(ana.latitude, ana.longitude),
          elevation \in ElevationReturns(ana.latitude, ana.longitude) :
          ana' = [ana EXCEPT !.pc = "done", !.entry = "analyze_location",
                     !.fetches = 4, !.weather = weather, !.elevation = elevation,
                     !.result = service_analysis(ana.latitude, ana.longitude,
                                    ana.area_hectares, location_name, weather,
                                    climate_history, elevation)]
    /\ UNCHANGED <<est, deg, clim, cli, rec, trd, alr, prj, pcd, sta, rst, fer>>

\* comprehensive_land_analysis(latitude, longitude, area_hectares)
ComprehensiveLandAnalysis ==
    /\ ana.pc = "call"
    /\ \E climate_data \in ClimateDataReturns(ana.latitude, ana.longitude),
          elevation \in ElevationDataReturns(ana.latitude, ana.longitude) :
          ana' = [ana EXCEPT !.pc = "done",
                     !.entry = "comprehensive_land_analysis",
                     !.fetches = 2, !.weather = climate_data,
                     !.elevation = elevation,
                     !.result = projects_analysis(ana.latitude, ana.longitude,
                                    ana.area_hectares, climate_data, elevation)]
    /\ UNCHANGED <<est, deg, clim, cli, rec, trd, alr, prj, pcd, sta, rst, fer>>

\* POST /api/analyze: 401 without a session, 400 when a field is missing,
\* 500 when the analysis is None, else 200 with the analysis.
ApiAnalyzeLocation ==
    /\ ana.pc = "call"
    /\ \E logged_in \in BOOLEAN, has_fields \in BOOLEAN :
       \E climate_data \in ClimateDataReturns(ana.latitude, ana.longitude),
          elevation \in ElevationDataReturns(ana.latitude, ana.longitude) :
          LET analysis == projects_analysis(ana.latitude, ana.longitude,
                              ana.area_hectares, climate_data, elevation)
          IN  ana' = IF ~logged_in
                     THEN [ana EXCEPT !.pc = "done",
                              !.entry = "api_analyze_location", !.status = 401]
                     ELSE IF ~has_fields
                     THEN [ana EXCEPT !.pc = "done",
                              !.entry = "api_analyze_location", !.status = 400]
                     ELSE [ana EXCEPT !.pc = "done",
                              !.entry = "api_analyze_location",
                              !.fetches = 2, !.weather = climate_data,
                              !.elevation = elevation, !.result = analysis,
                              !.status = IF analysis.none THEN 500 ELSE 200]
    /\ UNCHANGED <<est, deg, clim, cli, rec, trd, alr, prj, pcd, sta, rst, fer>>

AnaNext ==
    \/ AnalyzeLocation
    \/ ComprehensiveLandAnalysis
    \/ ApiAnalyzeLocation

SpecAnalysis == AnaInit /\ [][AnaNext]_vars

-----------------------------------------------------------------------------
(* Claims on the analysis request (SpecAnalysis)                           *)

\* latitude in [-90, 90], longitude in [-180, 180], area positive.
ValidRequest ==
    /\ ana.latitude \in -180..180
    /\ ana.longitude \in -360..360
    /\ ana.area_hectares > 0

AnalysisEntries == {"analyze_location", "comprehensive_land_analysis"}

\* C1: for every valid latitude, longitude and area and every combination of
\* client outcomes (success, error status, exception, malformed or null-valued
\* payload), analyze_location and comprehensive_land_analysis return a complete
\* analysis record, never None.
C1_AnalysisAlwaysComplete ==
    (ana.pc = "done" /\ ana.entry \in AnalysisEntries /\ ValidRequest)
    => ~ana.result.none

\* C2: a request whose latitude, longitude or area is out of range is rejected
\* with a validation error before any fetch or derivation runs, and no analysis
\* record is produced for it.
C2_InvalidInputRejected ==
    (ana.pc = "done" /\ ~ValidRequest)
    => /\ ana.fetches = 0
       /\ ana.result.none
       /\ ana.entry = "api_analyze_location" => ana.status \in {400, 401}

-----------------------------------------------------------------------------
(* Claims on the clients (SpecClients)                                     *)

Returned(client) == cli.pc = "returned" /\ cli.client = client

\* The conditions under which C5 names the fallback.
WeatherUnavailable ==
    \/ ~cli.api_key
    \/ cli.http.raised
    \/ cli.http.status # 200
    \/ cli.data.shape = "bad"

\* C5: get_current_weather always returns a fully populated snapshot; when the
\* key is missing, the request fails, the status is not 200 or the payload is
\* malformed, the snapshot is the fallback of the coordinates, whose
\* temperature lies in [-20, 45].
C5_WeatherAlwaysPopulated ==
    Returned("get_current_weather") =>
        /\ ~cli.result.humidity.none
        /\ ~cli.result.sunrise.none
        /\ ~cli.result.sunset.none
        /\ WeatherUnavailable =>
              /\ cli.result = _get_fallback_weather(cli.latitude, cli.longitude)
              /\ cli.result.temperature \in -200..450

Retried(outcome) == outcome.raised \/ outcome.status \in {429, 500, 502, 503, 504}

\* C6: one call of _http_get (or _http_post) issues at most 3 requests; every
\* request but the last ended in 429/500/502/503/504 or an exception; the k-th
\* failed attempt is followed by a sleep of 0.5 * 2^(k-1) s (0.5, 1, 2); a 200
\* or any other status ends the call at once and is what the call returns.
C6_BoundedRetries ==
    LET n == Len(cli.outcomes)
        failed == {k \in 1..n : Retried(cli.outcomes[k])}
    IN  cli.pc # "idle" =>
            /\ n <= 3
            /\ \A k \in 1..(n - 1) : Retried(cli.outcomes[k])
            /\ Len(cli.sleeps) = Cardinality(failed)
            /\ cli.sleeps = SubSeq(<<500, 1000, 2000>>, 1, Len(cli.sleeps))
            /\ (n > 0 /\ ~Retried(cli.outcomes[n])) =>
                  /\ cli.pc \in {"http_done", "returned"}
                  /\ cli.http = cli.outcomes[n]

\* C6 witness: a call of _http_get whose three requests ended in an exception,
\* a 503 and a 429, with the three sleeps taken.
C6_Witness ==
    /\ Returned("_http_get")
    /\ Len(cli.outcomes) = 3
    /\ cli.outcomes[1].raised
    /\ cli.outcomes[2] = HttpResponse(503)
    /\ cli.outcomes[3] = HttpResponse(429)
    /\ cli.sleeps = <<500, 1000, 2000>>

\* C7: whatever the attempts of the request did, get_climate_data returns a
\* record or None, get_current_weather a snapshot, reverse_geocode a place
\* string or the coordinate string, and get_elevation a number of metres or 0.
C7_ClientsReturnTyped ==
    /\ Returned("get_climate_data") => cli.result.none \in BOOLEAN
    /\ Returned("get_current_weather") => cli.result.temperature \in Int
    /\ Returned("reverse_geocode") =>
          \/ cli.result.kind = "place" /\ cli.result.parts # <<>>
          \/ cli.result = CoordinateString(cli.latitude, cli.longitude)
    /\ Returned("get_elevation") => ~cli.result.none

-----------------------------------------------------------------------------
(* Claims on the climate client (SpecClimate)                              *)

T2M == clim.raw_data.parameter["T2M"]

RH2M == clim.raw_data.parameter["RH2M"]

\* The reading stored at the greatest date key of a non-empty series.
ReadingAtMaxKey(series) ==
    LET items == series.items
        last == CHOOSE i \in 1..Len(items) :
                    \A j \in 1..Len(items) : ~StrLess(items[i][1], items[j][1])
    IN  items[last][2].n

NonDecreasing(dates) ==
    \A i \in 1..(Len(dates) - 1) : ~StrLess(dates[i + 1], dates[i])

\* The series of the result that belongs to a metric of the payload.
ExposedSeries(m) ==
    CASE m = "T2M" -> clim.result.time_series.temperature
      [] m = "PRECTOTCORR" -> clim.result.time_series.rainfall
      [] m = "RH2M" -> clim.result.time_series.humidity
      [] m = "WS2M" -> clim.result.time_series.wind_speed
      [] OTHER -> clim.result.time_series.solar_radiation

\* C3: for a payload whose series are keyed by date string in any key order,
\* the `current` value of temperature and of humidity is the reading at the
\* series' greatest date key, time_series.dates is in non-decreasing date
\* order, and the last element of every exposed series is the reading of its
\* latest date.
C3_ChronologicalOrder ==
    (clim.pc = "done" /\ ~clim.result.none) =>
        /\ (T2M.items # <<>> =>
                clim.result.temperature.current = ReadingAtMaxKey(T2M))
        /\ (RH2M.items # <<>> =>
                clim.result.humidity.current = ReadingAtMaxKey(RH2M))
        /\ NonDecreasing(clim.result.time_series.dates)
        /\ \A m \in Metrics :
              LET series == clim.raw_data.parameter[m]
                  exposed == ExposedSeries(m)
              IN  series.items # <<>> =>
                      /\ Len(exposed) = Len(series.items)
                      /\ exposed[Len(exposed)] = ReadingAtMaxKey(series)

\* C3 witness: a processed payload whose three temperature readings arrive with
\* the latest date first and whose latest reading differs from the one sent last.
C3_Witness ==
    /\ clim.pc = "done" /\ ~clim.result.none
    /\ Len(T2M.items) = 3
    /\ \A j \in 2..3 : StrLess(T2M.items[j][1], T2M.items[1][1])
    /\ T2M.items[1][2] # T2M.items[3][2]
    /\ clim.result.temperature.current = T2M.items[1][2].n

\* A metric for which the source returned no reading.
NoReadings(m) == clim.raw_data.parameter[m].items = <<>>

\* C4: whenever the source returns no readings for a metric (the parameter map
\* is empty, or a single series is missing or empty), the history is reported
\* absent, never as a record with zeros standing in for the missing metric.
C4_AbsentWhenNoReadings ==
    (clim.pc = "done" /\ clim.raw_data.shape = "ok"
        /\ \E m \in Metrics : NoReadings(m))
    => clim.result.none

-----------------------------------------------------------------------------
(* Claims on the estimators (SpecEstimators, SpecDegradation)              *)

DegradationLevels == {"minimal", "moderate", "severe", "critical"}

\* C8: for every latitude, longitude, elevation, temperature and humidity the
\* derived vegetation index is in [0, 1], the soil pH in [0, 14], the annual
\* rainfall is not negative and the degradation level is one of the four.
C8_DerivedBounds ==
    est.pc = "done" =>
        /\ est.out.vegetation_index \in 0..100
        /\ est.out.soil_ph \in 0..140
        /\ est.out.annual_rainfall >= 0
        /\ est.out.land_degradation_level \in DegradationLevels

\* C8 witness: a polar location colder than 10 degrees, where the unclamped
\* value 0.2 - 0.15 + 0.0 - 0.1 is negative and the result is 0.
C8_Witness ==
    /\ est.pc = "done" /\ est.impl = "service"
    /\ Abs(est.latitude) >= 100 /\ est.temperature < 100
    /\ Abs(est.longitude) % 20 = 0
    /\ est.out.vegetation_index = 0

\* C9 as stated: every soil pH the pipeline produces lies in [5.0, 7.5].
C9_PhWithinBaseRange ==
    est.pc = "done" => est.out.soil_ph \in 50..75

\* C9 amended: every soil pH the pipeline produces lies in [4.7, 7.8], the
\* range [5.0, 7.5] of the base table widened by the humidity shift of 0.3.
C9_PhWithinShiftedRange ==
    est.pc = "done" => est.out.soil_ph \in 47..78

\* C9 witness: a Podzol (base pH 5.0) under humidity above 70 has pH 4.7.
C9_Witness ==
    /\ est.pc = "done"
    /\ est.out.soil_type = "Podzol" /\ est.humidity > 70
    /\ est.out.soil_ph = 47

\* The classification C10 states, from the claim's own words.
ClaimedLevel(inputs) ==
    LET score == (IF inputs.ndvi < 20 THEN 4
                  ELSE IF inputs.ndvi < 35 THEN 3
                  ELSE IF inputs.ndvi < 50 THEN 2
                  ELSE 1)
                 + (IF inputs.soil_ph < 50 \/ inputs.soil_ph > 85 THEN 1 ELSE 0)
                 + (IF inputs.area_hectares > 100 THEN 1 ELSE 0)
    IN  IF score >= 5 THEN "critical"
        ELSE IF score >= 4 THEN "severe"
        ELSE IF score >= 2 THEN "moderate"
        ELSE "minimal"

Severity(level) ==
    CASE level = "minimal" -> 0
      [] level = "moderate" -> 1
      [] level = "severe" -> 2
      [] level = "critical" -> 3

\* C10: the level is the classification of the score (NDVI band points, plus 1
\* for a pH outside [5.0, 8.5], plus 1 for an area above 100 ha), and between
\* two calls that differ only by a lower NDVI, or only by a larger area, the
\* level does not improve.
C10_DegradationScore ==
    /\ deg.pc \in {"second", "done"} => deg.level1 = ClaimedLevel(deg.first)
    /\ deg.pc = "done" =>
        /\ deg.level2 = ClaimedLevel(deg.second)
        /\ (/\ deg.second.ndvi <= deg.first.ndvi
            /\ deg.second.soil_ph = deg.first.soil_ph
            /\ deg.second.area_hectares = deg.first.area_hectares)
           => Severity(deg.level2) >= Severity(deg.level1)
        /\ (/\ deg.second.area_hectares >= deg.first.area_hectares
            /\ deg.second.soil_ph = deg.first.soil_ph
            /\ deg.second.ndvi = deg.first.ndvi)
           => Severity(deg.level2) >= Severity(deg.level1)

\* C10 witness: the second call has a lower NDVI, the same pH and area, and a
\* strictly worse level.
C10_Witness ==
    /\ deg.pc = "done"
    /\ deg.second.ndvi < deg.first.ndvi
    /\ deg.second.soil_ph = deg.first.soil_ph
    /\ deg.second.area_hectares = deg.first.area_hectares
    /\ deg.level1 = "moderate" /\ deg.level2 = "critical"

\* A first call on healthy land: NDVI above 0.5 and pH within [5.0, 8.5].
HealthyLand ==
    /\ deg.pc \in {"second", "done"}
    /\ deg.first.ndvi > 50
    /\ deg.first.soil_ph \in 50..85

\* C11 as stated: whenever the NDVI is above 0.5 and the pH is within
\* [5.0, 8.5], the degradation level is minimal, for every area.
C11_HealthyLandMinimal ==
    HealthyLand => deg.level1 = "minimal"

\* C11 amended: whenever the NDVI is above 0.5 and the pH is within [5.0, 8.5],
\* the degradation level is minimal for an area of at most 100 ha and moderate
\* for a larger area.
C11_HealthyLandByArea ==
    HealthyLand =>
        deg.level1 = IF deg.first.area_hectares > 100 THEN "moderate" ELSE "minimal"

\* C11 witness: NDVI 0.51, pH 8.5 and 101 ha, assessed by
\* assess_land_degradation as moderate.
C11_Witness ==
    /\ HealthyLand /\ deg.impl = "projects"
    /\ deg.first.ndvi = 51 /\ deg.first.soil_ph = 85
    /\ deg.first.area_hectares = 101
    /\ deg.level1 = "moderate"

\* C12: for every climate zone and every soil pH below 5.5, the recommended
\* crops of the resulting analysis contain neither Wheat nor Barley and contain
\* Blueberries or Cranberries.
C12_AcidSoilCrops ==
    (est.pc = "done" /\ est.out.soil_ph < 55) =>
        /\ ~Contains(est.out.recommended_crops, "Wheat")
        /\ ~Contains(est.out.recommended_crops, "Barley")
        /\ \/ Contains(est.out.recommended_crops, "Blueberries")
           \/ Contains(est.out.recommended_crops, "Cranberries")

-----------------------------------------------------------------------------
(* SpecRecommendations: calls of the six estimators and of the             *)
(* recommendation generator in one process. A first call is made, then up  *)
(* to MaxCalls calls of any of the seven functions, of either module and   *)
(* with any arguments, then the first call is made again. The estimators   *)
(* and LandAnalysisService._generate_recommendations bind their tables to  *)
(* new literals in every call and only read them; generate_recommendations *)
(* of app/projects.py edits entries of its crops_db and trees_db in place, *)
(* so the dictionaries a call leaves behind are kept in rec.crops_db and   *)
(* rec.trees_db next to the dictionaries the next call starts from.        *)

MaxCalls == 2

UnknownZone == "Atlantis"

UnknownDegradation == "unknown"

RecZones == ZoneKeys \cup {UnknownZone}

RecPhSamples == {54, 55, 75, 76}

RecDegradations == {"moderate", "critical", UnknownDegradation}

RecRainfalls == {599, 600}

Implementations == {"service", "projects"}

\* A call: the function, the module whose function is called and the
\* arguments; an argument the function does not take is left at its default.
NoCall ==
    [fn |-> "", impl |-> "", latitude |-> 0, longitude |-> 0, elevation |-> 0,
     temperature |-> 0, humidity |-> 0, temps |-> <<>>, soil_type |-> "",
     climate_zone |-> "", soil_ph |-> 0, ndvi |-> 0, area_hectares |-> 0,
     degradation |-> "", rainfall |-> 0]

\* The temperature series of a climate history: none, the latest reading
\* above the mean by more than 2 degrees, and below it.
RecHistories == {<<>>, <<200, 200, 260>>, <<260, 260, 200>>}

SoilTypeCalls ==
    {[NoCall EXCEPT !.fn = "soil_type", !.latitude = la, !.longitude = lo,
                    !.elevation = el] :
        la \in {0, 40, 80, 120}, lo \in {0, 2, 5}, el \in {0, 1500, 2500}}

SoilPhCalls ==
    {[NoCall EXCEPT !.fn = "soil_ph", !.soil_type = st, !.humidity = hu] :
        st \in {"Laterite", "Podzol", "Rocky", "Gleysol"}, hu \in {39, 40, 70, 71}}

NdviCalls ==
    {[NoCall EXCEPT !.fn = "ndvi", !.latitude = la, !.longitude = lo,
                    !.temperature = te, !.humidity = hu, !.temps = ts] :
        la \in {0, 110}, lo \in {0, 7}, te \in {90, 260}, hu \in {29, 61},
        ts \in RecHistories}

ClimateZoneCalls ==
    {[NoCall EXCEPT !.fn = "climate_zone", !.latitude = la, !.temperature = te] :
        la \in {47, 48, 61, 91, 121, 134}, te \in {200, 201, 250, 251}}

AnnualRainfallCalls ==
    {[NoCall EXCEPT !.fn = "annual_rainfall", !.climate_zone = cz,
                    !.humidity = hu, !.longitude = lo] :
        cz \in {"Equatorial", "Polar", UnknownZone}, hu \in {39, 40, 70, 71},
        lo \in {0, 31}}

LandDegradationCalls ==
    {[NoCall EXCEPT !.fn = "land_degradation", !.ndvi = nd, !.soil_ph = ph,
                    !.area_hectares = ar] :
        nd \in {19, 20, 34, 35, 49, 50}, ph \in {49, 86}, ar \in {100, 101}}

RecommendationCalls ==
    {[NoCall EXCEPT !.fn = "recommendations", !.climate_zone = cz, !.soil_ph = ph,
                    !.degradation = de, !.rainfall = ra] :
        cz \in RecZones, ph \in RecPhSamples, de \in RecDegradations,
        ra \in RecRainfalls}

\* The first call, which is made again at the end.
RecArgs ==
    {[c EXCEPT !.impl = impl] :
        c \in SoilTypeCalls \cup SoilPhCalls \cup NdviCalls \cup ClimateZoneCalls
              \cup AnnualRainfallCalls \cup LandDegradationCalls
              \cup RecommendationCalls,
        impl \in Implementations}

\* The calls in between: every function of both modules, the generator with
\* a pH that makes it edit the catalog entry of a zone and with one that
\* does not.
RecOtherArgs ==
    {[c EXCEPT !.impl = impl] :
        c \in {c \in SoilTypeCalls : c.latitude = 40 /\ c.longitude = 2 /\ c.elevation = 0}
              \cup {c \in SoilPhCalls : c.soil_type = "Podzol" /\ c.humidity = 71}
              \cup {c \in NdviCalls : /\ c.latitude = 0 /\ c.longitude = 7
                                      /\ c.temperature = 260 /\ c.humidity = 61
                                      /\ c.temps = <<200, 200, 260>>}
              \cup {c \in ClimateZoneCalls : c.latitude = 91 /\ c.temperature = 201}
              \cup {c \in AnnualRainfallCalls : /\ c.climate_zone = "Equatorial"
                                                /\ c.humidity = 71 /\ c.longitude = 31}
              \cup {c \in LandDegradationCalls : /\ c.ndvi = 34 /\ c.soil_ph = 86
                                                 /\ c.area_hectares = 101}
              \cup {c \in RecommendationCalls :
                       /\ c.climate_zone \in {"Warm Temperate", "Equatorial", UnknownZone}
                       /\ c.soil_ph \in {54, 55, 76}
                       /\ c.degradation = "moderate" /\ c.rainfall = 600},
        impl \in Implementations}

\* crops_db = {...} (line 330): every call binds a new dictionary, whatever
\* the dictionary of the call before it held.
crops_db_kept(left) == left

new_crops_db(left) == [z \in ZoneKeys |-> crops_db(z)]

\* trees_db = {...} (line 341)
new_trees_db(left) == [z \in ZoneKeys |-> trees_db(z)]

\* if soil_ph < 5.5: the zone's list loses Wheat and Barley and is extended.
adjust_crops(db, climate_zone, soil_ph) ==
    IF soil_ph < 55
    THEN [db EXCEPT ![climate_zone] =
              SelectSeq(@, NotWheatBarley) \o <<"Blueberries", "Cranberries">>]
    ELSE db

\* elif soil_ph > 7.5: Date Palm is appended unless the zone lists Olive.
adjust_trees(db, climate_zone, soil_ph) ==
    IF soil_ph >= 55 /\ soil_ph > 75 /\ ~Contains(db[climate_zone], "Olive")
    THEN [db EXCEPT ![climate_zone] = @ \o <<"Date Palm">>]
    ELSE db

\* What a call gives back: the exception of the generator, its record, the
\* number of an estimator (NDVI, pH, rainfall) or its text (soil type,
\* climate zone, degradation level).
RecRaised ==
    [raised |-> TRUE, crops |-> <<>>, trees |-> <<>>, techniques |-> <<>>,
     timeline_months |-> 0, budget_per_hectare |-> 0, number |-> 0, text |-> ""]

RecResult(r) ==
    [raised |-> FALSE, crops |-> r.crops, trees |-> r.trees,
     techniques |-> r.techniques, timeline_months |-> r.timeline_months,
     budget_per_hectare |-> r.budget_per_hectare, number |-> 0, text |-> ""]

RecNumber(n) == [RecRaised EXCEPT !.raised = FALSE, !.number = n]

RecText(t) == [RecRaised EXCEPT !.raised = FALSE, !.text = t]

\* The weather the estimators are handed.
RecWeather(call) ==
    [temperature |-> call.temperature, humidity |-> Num(call.humidity)]

\* The climate history the NDVI estimator of the service is handed.
RecClimate(call) ==
    IF call.temps = <<>> THEN NoClimate
    ELSE [none |-> FALSE, time_series |-> [temperature |-> call.temps]]

\* The calls of function fn that can be made now: the first call, a call in
\* between, or (again) the first call once more.
RecDue(fn, again) ==
    {c \in (IF rec.pc = "first" /\ ~again THEN {rec.arg}
            ELSE IF rec.pc = "between" /\ again /\ rec.calls >= 1 THEN {rec.arg}
            ELSE IF rec.pc = "between" /\ ~again /\ rec.calls < MaxCalls
            THEN RecOtherArgs
            ELSE {}) : c.fn = fn}

RecReturn(again, call, out, crops, trees) ==
    LET between == rec.pc = "between" /\ ~again
    IN  /\ rec' = [rec EXCEPT
                      !.pc = IF again THEN "done" ELSE "between",
                      !.calls = IF between THEN @ + 1 ELSE @,
                      !.other = IF between THEN call ELSE @,
                      !.estimated = @ \/ (between /\ call.fn # "recommendations"),
                      !.edited = @ \/ (/\ between
                                       /\ call.fn = "recommendations"
                                       /\ call.impl = "projects"
                                       /\ \/ crops # new_crops_db(rec.crops_db)
                                          \/ trees # new_trees_db(rec.trees_db)),
                      !.out1 = IF rec.pc = "first" THEN out ELSE @,
                      !.out3 = IF again THEN out ELSE @,
                      !.crops_db = crops,
                      !.trees_db = trees]
        /\ UNCHANGED <<est, deg, clim, cli, ana, trd, alr, prj, pcd, sta, rst, fer>>

\* A call of an estimator: it writes no object that outlives the call.
RecEstimated(again, call, out) ==
    RecReturn(again, call, out, rec.crops_db, rec.trees_db)

InitRecommendations ==
    /\ est = EstIdle /\ deg = DegIdle /\ clim = ClimIdle /\ cli = CliIdle
    /\ ana = AnaIdle /\ trd = TrdIdle /\ alr = AlrIdle /\ prj = PrjIdle
    /\ pcd = PcdIdle /\ sta = StaIdle /\ rst = RstIdle /\ fer = FerIdle
    /\ \E arg \in RecArgs :
          rec = [pc |-> "first", impl |-> arg.impl, arg |-> arg, calls |-> 0,
                 other |-> NoCall, estimated |-> FALSE, edited |-> FALSE,
                 out1 |-> RecRaised, out3 |-> RecRaised,
                 crops_db |-> [z \in ZoneKeys |-> crops_db(z)],
                 trees_db |-> [z \in ZoneKeys |-> trees_db(z)]]

\* _analyze_soil_type and analyze_soil_type
RecAnalyzeSoilType ==
    \E again \in BOOLEAN : \E a \in RecDue("soil_type", again) :
        RecEstimated(again, a,
            RecText(IF a.impl = "service"
                    THEN _analyze_soil_type(a.latitude, a.longitude, a.elevation)
                    ELSE analyze_soil_type(a.latitude, a.longitude, a.elevation)))

\* _calculate_soil_ph and calculate_soil_ph
RecCalculateSoilPh ==
    \E again \in BOOLEAN : \E a \in RecDue("soil_ph", again) :
        RecEstimated(again, a,
            RecNumber(IF a.impl = "service"
                      THEN _calculate_soil_ph(a.soil_type, RecWeather(a))
                      ELSE calculate_soil_ph(a.soil_type, RecWeather(a))))

\* _estimate_ndvi and calculate_ndvi_estimate, which takes no climate history.
RecEstimateNdvi ==
    \E again \in BOOLEAN : \E a \in RecDue("ndvi", again) :
        RecEstimated(again, a,
            RecNumber(IF a.impl = "service"
                      THEN _estimate_ndvi(a.latitude, a.longitude, RecWeather(a),
                                          RecClimate(a))
                      ELSE calculate_ndvi_estimate(a.latitude, a.longitude,
                                                   RecWeather(a))))

\* _determine_climate_zone and determine_climate_zone
RecDetermineClimateZone ==
    \E again \in BOOLEAN : \E a \in RecDue("climate_zone", again) :
        RecEstimated(again, a,
            RecText(IF a.impl = "service"
                    THEN _determine_climate_zone(a.latitude, a.temperature)
                    ELSE determine_climate_zone(a.latitude, a.temperature)))

\* _estimate_annual_rainfall and estimate_annual_rainfall
RecEstimateAnnualRainfall ==
    \E again \in BOOLEAN : \E a \in RecDue("annual_rainfall", again) :
        RecEstimated(again, a,
            RecNumber(IF a.impl = "service"
                      THEN _estimate_annual_rainfall(a.climate_zone, a.humidity,
                                                     a.longitude)
                      ELSE estimate_annual_rainfall(a.climate_zone, a.humidity,
                                                    a.longitude)))

\* _assess_degradation and assess_land_degradation
RecAssessDegradation ==
    \E again \in BOOLEAN : \E a \in RecDue("land_degradation", again) :
        RecEstimated(again, a,
            RecText(IF a.impl = "service"
                    THEN _assess_degradation(a.ndvi, a.soil_ph, a.area_hectares)
                    ELSE assess_land_degradation(a.ndvi, a.soil_ph, a.area_hectares)))

\* LandAnalysisService._generate_recommendations: reads its arguments only.
ServiceGenerateRecommendations ==
    \E again \in BOOLEAN : \E a \in RecDue("recommendations", again) :
        /\ a.impl = "service"
        /\ RecReturn(again, a,
               RecResult(_generate_recommendations(
                   a.climate_zone, "Loam", a.soil_ph, a.degradation, a.rainfall)),
               rec.crops_db, rec.trees_db)

\* projects.generate_recommendations
GenerateRecommendations ==
    \E again \in BOOLEAN : \E a \in RecDue("recommendations", again) :
        /\ a.impl = "projects"
        /\ LET crops0 == new_crops_db(rec.crops_db)
               trees0 == new_trees_db(rec.trees_db)
           IN  IF a.climate_zone \notin ZoneKeys /\ (a.soil_ph < 55 \/ a.soil_ph > 75)
               THEN RecReturn(again, a, RecRaised, crops0, trees0)   \* KeyError
               ELSE LET known == a.climate_zone \in ZoneKeys
                        crops1 == IF known
                                  THEN adjust_crops(crops0, a.climate_zone, a.soil_ph)
                                  ELSE crops0
                        trees1 == IF known
                                  THEN adjust_trees(trees0, a.climate_zone, a.soil_ph)
                                  ELSE trees0
                    IN  RecReturn(again, a,
                            [RecRaised EXCEPT
                                !.raised = FALSE,
                                !.crops = IF known THEN crops1[a.climate_zone]
                                          ELSE <<"Consult local agronomist">>,
                                !.trees = IF known THEN trees1[a.climate_zone]
                                          ELSE <<"Consult local forester">>,
                                !.techniques = techniques_db(a.degradation),
                                !.timeline_months = timeline_map(a.degradation),
                                !.budget_per_hectare =
                                    budget_per_hectare(a.degradation, a.rainfall)],
                            crops1, trees1)

NextRecommendations ==
    \/ RecAnalyzeSoilType
    \/ RecCalculateSoilPh
    \/ RecEstimateNdvi
    \/ RecDetermineClimateZone
    \/ RecEstimateAnnualRainfall
    \/ RecAssessDegradation
    \/ ServiceGenerateRecommendations
    \/ GenerateRecommendations

SpecRecommendations == InitRecommendations /\ [][NextRecommendations]_vars

\* The dictionaries-in-place reading of generate_recommendations agrees with
\* the operator the analysis pipeline uses.
RecAgreesWithOperator ==
    (rec.pc \in {"between", "done"} /\ rec.impl = "projects"
     /\ rec.arg.fn = "recommendations") =>
        IF recommendations_raise(rec.arg.climate_zone, rec.arg.soil_ph)
        THEN rec.out1.raised
        ELSE rec.out1 = RecResult(generate_recommendations(
                 rec.arg.climate_zone, "Loam", rec.arg.soil_ph,
                 rec.arg.degradation, rec.arg.rainfall))

\* A non-empty list that tells the caller to consult a professional.
ConsultList(list) ==
    /\ list # <<>>
    /\ list \in {<<"Consult agronomist">>, <<"Consult forester">>,
                 <<"Consult local agronomist">>, <<"Consult local forester">>,
                 <<"Professional consultation required">>}

\* C13: an unknown climate zone or an unknown degradation tier does not make
\* the generator fail; the crops and trees of an unknown zone, and the
\* techniques of an unknown tier, are a non-empty list that tells the caller
\* to consult a professional.
C13_UnknownKeysGiveSentinel ==
    (rec.pc \in {"between", "done"} /\ rec.arg.fn = "recommendations") =>
        /\ (rec.arg.climate_zone \notin ZoneKeys /\ rec.impl = "projects") =>
               /\ ~rec.out1.raised
               /\ ConsultList(rec.out1.crops)
               /\ ConsultList(rec.out1.trees)
        /\ (rec.arg.climate_zone \notin {"Equatorial", "Tropical", "Subtropical",
                "Warm Temperate", "Cool Temperate"} /\ rec.impl = "service") =>
               /\ ~rec.out1.raised
               /\ ConsultList(rec.out1.crops)
               /\ ConsultList(rec.out1.trees)
        /\ (rec.arg.degradation \notin DegradationLevels) =>
               /\ ~rec.out1.raised
               /\ ConsultList(rec.out1.techniques)

ClaimedBaseBudget(level) ==
    CASE level = "minimal" -> 50000
      [] level = "moderate" -> 150000
      [] level = "severe" -> 350000
      [] level = "critical" -> 700000

ClaimedBudgetPerHectare(level, rainfall) ==
    IF rainfall < 600 THEN (ClaimedBaseBudget(level) * 15) \div 10
    ELSE ClaimedBaseBudget(level)

\* C14: the budget per hectare is the base of the degradation tier (50000,
\* 150000, 350000, 700000) multiplied by 1.5 exactly when the annual rainfall
\* is below 600 mm and by 1 otherwise, and the estimated budget of an analysis
\* is that amount times the area in hectares.
C14_BudgetScaling ==
    (est.pc = "done" /\ ~est.out.none) =>
        est.out.estimated_budget =
            ClaimedBudgetPerHectare(est.out.land_degradation_level,
                                    est.out.annual_rainfall) * est.area_hectares

\* A severe tier under dry rainfall: 525000 per hectare.
C14_Witness ==
    /\ est.pc = "done" /\ ~est.out.none
    /\ est.out.land_degradation_level = "severe"
    /\ est.out.annual_rainfall < 600
    /\ est.out.estimated_budget = 525000 * est.area_hectares

\* The zone's list after the pH adjustment, as the claim reads it: below 5.5
\* Wheat and Barley leave and the acid-tolerant substitutes are appended;
\* above 7.5 the alkaline-tolerant tree is appended.
ClaimedAdjustedCrops(list, soil_ph) ==
    IF soil_ph < 55
    THEN SelectSeq(list, NotWheatBarley) \o <<"Blueberries", "Cranberries">>
    ELSE list

ClaimedAdjustedTrees(list, soil_ph) ==
    IF soil_ph > 75 THEN list \o <<"Date Palm">> ELSE list

FirstFiveOf(result, list) ==
    /\ Len(result) = Min(5, Len(list))
    /\ \A i \in 1..Len(result) : result[i] = list[i]

\* The catalog of LandAnalysisService has no Subpolar and no Polar entry; a
\* zone without an entry gives the sentinel list, which no pH rule edits.
ZoneInCatalog ==
    IF est.impl = "service" THEN est.out.climate_zone \in ZoneKeys \ {"Subpolar", "Polar"}
    ELSE est.out.climate_zone \in ZoneKeys

ZoneCrops == IF est.impl = "service" THEN service_crops(est.out.climate_zone)
             ELSE crops_db(est.out.climate_zone)

ZoneTrees == IF est.impl = "service" THEN service_trees(est.out.climate_zone)
             ELSE trees_db(est.out.climate_zone)

ClaimedCropList ==
    IF ZoneInCatalog THEN ClaimedAdjustedCrops(ZoneCrops, est.out.soil_ph)
    ELSE ZoneCrops

ClaimedTreeList ==
    IF ZoneInCatalog THEN ClaimedAdjustedTrees(ZoneTrees, est.out.soil_ph)
    ELSE ZoneTrees

\* C15: in every analysis result recommended_crops and recommended_trees hold
\* at most 5 entries each and are exactly the first min(5, n) entries, in
\* catalog order, of the zone's pH-adjusted list.
C15_FirstFiveInCatalogOrder ==
    (est.pc = "done" /\ ~est.out.none) =>
        /\ Len(est.out.recommended_crops) <= 5
        /\ Len(est.out.recommended_trees) <= 5
        /\ FirstFiveOf(est.out.recommended_crops, ClaimedCropList)
        /\ FirstFiveOf(est.out.recommended_trees, ClaimedTreeList)

-----------------------------------------------------------------------------
(* SpecTrend: calculate_ndvi_trend (app/insights.py) over the rows the      *)
(* query returns: the NDVI readings of the window, none of them NULL, in   *)
(* ascending recorded_at order. NDVI is in hundredths. A percentage is the *)
(* fraction num / den, den > 0, so that no rounding enters the model.      *)

MaxRecords == 3

NdviReadings == {-10, 0, 40, 50}

RECURSIVE SeqsUpTo(_, _)
SeqsUpTo(S, n) ==
    IF n = 0 THEN {<<>>}
    ELSE LET shorter == SeqsUpTo(S, n - 1)
         IN  shorter \cup {Append(s, x) : s \in {t \in shorter : Len(t) = n - 1}, x \in S}

NoTrend ==
    [none |-> TRUE, previous |-> 0, current |-> 0, change |-> 0,
     change_percent |-> [num |-> 0, den |-> 1]]

\* if r['ndvi']: a reading of 0.0 is falsy and is left out.
Truthy(ndvi) == ndvi # 0

calculate_ndvi_trend(records) ==
    IF records = <<>> THEN NoTrend
    ELSE LET ndvi_values == SelectSeq(records, Truthy)
         IN  IF Len(ndvi_values) < 2 THEN NoTrend
             ELSE LET first == ndvi_values[1]
                      last == ndvi_values[Len(ndvi_values)]
                  IN  [none |-> FALSE,
                       previous |-> first,
                       current |-> last,
                       change |-> last - first,
                       change_percent |->
                           IF first > 0
                           THEN [num |-> (last - first) * 100, den |-> first]
                           ELSE [num |-> 0, den |-> 1]]

TrdIdleOthers ==
    /\ est = EstIdle /\ deg = DegIdle /\ clim = ClimIdle /\ cli = CliIdle
    /\ ana = AnaIdle /\ rec = RecIdle /\ alr = AlrIdle /\ prj = PrjIdle
    /\ pcd = PcdIdle /\ sta = StaIdle /\ rst = RstIdle /\ fer = FerIdle

InitTrend ==
    /\ TrdIdleOthers
    /\ \E records \in SeqsUpTo(NdviReadings, MaxRecords) :
          trd = [pc |-> "call", records |-> records, result |-> NoTrend]

CalculateNdviTrend ==
    /\ trd.pc = "call"
    /\ trd' = [trd EXCEPT !.pc = "done",
                          !.result = calculate_ndvi_trend(trd.records)]
    /\ UNCHANGED <<est, deg, clim, cli, ana, rec, alr, prj, pcd, sta, rst, fer>>

NextTrend == CalculateNdviTrend

SpecTrend == InitTrend /\ [][NextTrend]_vars

\* The baseline is the earliest reading of the window, the new value the
\* latest one.
Baseline == trd.records[1]

NewReading == trd.records[Len(trd.records)]

\* C16: the vegetation change percentage is (new NDVI - baseline NDVI) /
\* baseline NDVI * 100, and it is 0 when the baseline NDVI is 0 or absent;
\* no input makes the computation divide by zero.
C16_ChangePercent ==
    (trd.pc = "done") =>
        /\ trd.result.change_percent.den # 0
        /\ (trd.records = <<>> \/ Baseline = 0) =>
               /\ ~trd.result.none
               /\ trd.result.change_percent.num = 0
        /\ (Len(trd.records) >= 2 /\ Baseline > 0) =>
               /\ ~trd.result.none
               /\ trd.result.change_percent.num * Baseline
                  = (NewReading - Baseline) * 100 * trd.result.change_percent.den

-----------------------------------------------------------------------------
(* SpecAlerts: generate_alerts (app/monitoring.py) over a project row. An  *)
(* alert is its type and title; the message, icon and timestamp are left   *)
(* out. NDVI in hundredths, pH and temperature in tenths, humidity percent. *)

AlertNdviSamples == {19, 20, 29, 30, 34, 35, 39, 40, 60, 61}

AlertPhSamples == {54, 55, 80, 81}

AlertTempSamples == {99, 100, 350, 351}

AlertHumiditySamples == {29, 30}

Alert(type, title) == [type |-> type, title |-> title]

\* if ndvi < 0.3 ... elif ndvi < 0.4 ...
vegetation_alerts(ndvi) ==
    IF ndvi < 30 THEN <<Alert("error", "Critical Vegetation Health")>>
    ELSE IF ndvi < 40 THEN <<Alert("warning", "Low Vegetation Health")>>
    ELSE <<>>

\* if soil_ph < 5.5 or soil_ph > 8.0
ph_alerts(soil_ph) ==
    IF soil_ph < 55 \/ soil_ph > 80
    THEN <<Alert("warning", "Soil pH Out of Range")>> ELSE <<>>

\* if degradation in ['severe', 'critical']; the title is degradation.title()
degradation_alerts(degradation) ==
    IF degradation = "severe" THEN <<Alert("error", "Severe Land Degradation")>>
    ELSE IF degradation = "critical"
    THEN <<Alert("error", "Critical Land Degradation")>>
    ELSE <<>>

\* if temp > 35 ... elif temp < 10 ...
temperature_alerts(temp) ==
    IF temp > 350 THEN <<Alert("warning", "High Temperature Alert")>>
    ELSE IF temp < 100 THEN <<Alert("warning", "Low Temperature Alert")>>
    ELSE <<>>

\* if humidity < 30
humidity_alerts(humidity) ==
    IF humidity < 30 THEN <<Alert("warning", "Low Humidity - Drought Risk")>>
    ELSE <<>>

\* if ndvi > 0.6
positive_alerts(ndvi) ==
    IF ndvi > 60 THEN <<Alert("info", "Excellent Vegetation Health")>> ELSE <<>>

generate_alerts(project) ==
    vegetation_alerts(project.vegetation_index)
    \o ph_alerts(project.soil_ph)
    \o degradation_alerts(project.land_degradation_level)
    \o temperature_alerts(project.temperature)
    \o humidity_alerts(project.humidity)
    \o positive_alerts(project.vegetation_index)

AlertProjects ==
    [vegetation_index : AlertNdviSamples, soil_ph : AlertPhSamples,
     land_degradation_level : DegradationLevels,
     temperature : AlertTempSamples, humidity : AlertHumiditySamples]

InitAlerts ==
    /\ est = EstIdle /\ deg = DegIdle /\ clim = ClimIdle /\ cli = CliIdle
    /\ ana = AnaIdle /\ rec = RecIdle /\ trd = TrdIdle /\ prj = PrjIdle
    /\ pcd = PcdIdle /\ sta = StaIdle /\ rst = RstIdle /\ fer = FerIdle
    /\ \E project \in AlertProjects :
          alr = [pc |-> "call", project |-> project, alerts |-> <<>>]

GenerateAlerts ==
    /\ alr.pc = "call"
    /\ alr' = [alr EXCEPT !.pc = "done", !.alerts = generate_alerts(alr.project)]
    /\ UNCHANGED <<est, deg, clim, cli, ana, rec, trd, prj, pcd, sta, rst, fer>>

NextAlerts == GenerateAlerts

SpecAlerts == InitAlerts /\ [][NextAlerts]_vars

HasAlert(type, title) ==
    \E i \in 1..Len(alr.alerts) : alr.alerts[i] = Alert(type, title)

\* The sample is flagged critical for its vegetation.
CriticalVegetation == HasAlert("error", "Critical Vegetation Health")

\* The sample is flagged below critical for its vegetation.
MediumVegetation == HasAlert("warning", "Low Vegetation Health")

\* No alert that reports a problem: the level is none.
NoProblemAlert ==
    \A i \in 1..Len(alr.alerts) : alr.alerts[i].type \notin {"error", "warning"}

\* Nothing but the vegetation index can raise the level of the sample.
QuietSample ==
    /\ alr.project.soil_ph \in 55..80
    /\ alr.project.land_degradation_level \notin {"severe", "critical"}
    /\ alr.project.temperature \in 100..350
    /\ alr.project.humidity >= 30

\* C17: the alert level follows the first matching rule: NDVI < 0.2 gives
\* critical whatever the other readings are, and only that rule gives
\* critical; with no other rule matching, NDVI < 0.35 gives medium and any
\* NDVI from 0.35 on gives none.
C17_AlertLevelTable ==
    (alr.pc = "done") =>
        /\ (alr.project.vegetation_index < 20) => CriticalVegetation
        /\ CriticalVegetation => (alr.project.vegetation_index < 20)
        /\ (QuietSample /\ alr.project.vegetation_index \in 20..34) =>
               MediumVegetation /\ ~CriticalVegetation
        /\ (QuietSample /\ alr.project.vegetation_index >= 35) => NoProblemAlert

-----------------------------------------------------------------------------
(* SpecProjects: one row of the projects table through create_project,     *)
(* reanalyze_project and update_project (app/projects.py). The row keeps   *)
(* the position, the area and the analysis columns; name, description and  *)
(* project_type take no part in an analysis and are left out. Every value  *)
(* of the model fits its column (DECIMAL(3,1) pH, DECIMAL(4,2) NDVI, INT    *)
(* rainfall), so storing a value does not change it. prj.analysis is the   *)
(* analysis the last handler produced. The table holds one row at a time;  *)
(* prj.id is the AUTO_INCREMENT id of the last row inserted, and a request *)
(* names the row that is stored when it arrives. A request that has        *)
(* committed its write calls create_notification before it answers; the    *)
(* notifications table is the state of SpecStatus and is not kept here.    *)

MaxRequests == 3

PrjLatitudes == {0, 94}

PrjLongitudes == {0, 59}

PrjAreas == {10, 150}

NoProject == [exists |-> FALSE]

\* The columns the INSERT of create_project and the UPDATE of update_project
\* (location changed) write from the analysis.
StoreAnalysis(latitude, longitude, area_hectares, a) ==
    [exists |-> TRUE,
     latitude |-> latitude, longitude |-> longitude,
     area_hectares |-> area_hectares,
     soil_type |-> a.soil_type,
     soil_ph |-> a.soil_ph,
     soil_fertility |-> a.soil_fertility,
     climate_zone |-> a.climate_zone,
     annual_rainfall |-> a.annual_rainfall,
     temperature |-> a.temperature,
     humidity |-> a.humidity,
     elevation |-> a.elevation,
     vegetation_index |-> a.vegetation_index,
     land_degradation_level |-> a.land_degradation_level,
     recommended_crops |-> a.recommended_crops,
     recommended_trees |-> a.recommended_trees,
     restoration_techniques |-> a.restoration_techniques,
     estimated_timeline_months |-> a.estimated_timeline_months,
     estimated_budget |-> a.estimated_budget]

\* The UPDATE of reanalyze_project: six analysis columns (and the timestamp).
StoreReanalysis(row, a) ==
    [row EXCEPT !.vegetation_index = a.vegetation_index,
                !.land_degradation_level = a.land_degradation_level,
                !.soil_ph = a.soil_ph,
                !.temperature = a.temperature,
                !.humidity = a.humidity,
                !.elevation = a.elevation]

PrjThreads == {1, 2}

\* A thread that serves no request.
PrjFree ==
    [pc |-> "free", handler |-> "", id |-> 0, status |-> 0, latitude |-> 0,
     longitude |-> 0, area_hectares |-> 0, location_changed |-> FALSE,
     analysis |-> NoAnalysis]

\* A request that has committed its write and goes on to create_notification,
\* holding the answer it will give.
PrjCommitted(handler, id, status, analysis, changed) ==
    [PrjFree EXCEPT !.pc = "notify", !.handler = handler, !.id = id,
                    !.status = status, !.analysis = analysis,
                    !.location_changed = changed]

\* One statement of the request of a thread has run: the request goes on as
\* next, or ends with the status (0 while it goes on). A row that appears
\* was inserted and has the next AUTO_INCREMENT id. project_id is the id the
\* request named or inserted, 0 when it named no stored row.
PrjRespond(thread, next, last, status, stored, analysis, changed) ==
    /\ prj' = [pc |-> "ready",
               requests |-> IF prj.threads[thread].pc = "free"
                            THEN prj.requests + 1 ELSE prj.requests,
               id |-> IF ~prj.stored.exists /\ stored.exists THEN prj.id + 1
                      ELSE prj.id,
               project_id |-> IF prj.threads[thread].pc = "free" THEN next.id
                              ELSE prj.threads[thread].id,
               last |-> last, status |-> status, stored |-> stored,
               analysis |-> analysis, location_changed |-> changed,
               threads |-> [prj.threads EXCEPT ![thread] = next]]
    /\ UNCHANGED <<est, deg, clim, cli, ana, rec, trd, alr, pcd, sta, rst, fer>>

\* The thread that takes the next request: free threads are alike, the
\* request takes the first.
PrjFreeThread ==
    {t \in PrjThreads :
        /\ prj.threads[t].pc = "free"
        /\ \A u \in PrjThreads : prj.threads[u].pc = "free" => t <= u}

InitProjects ==
    /\ est = EstIdle /\ deg = DegIdle /\ clim = ClimIdle /\ cli = CliIdle
    /\ ana = AnaIdle /\ rec = RecIdle /\ trd = TrdIdle /\ alr = AlrIdle
    /\ pcd = PcdIdle /\ sta = StaIdle /\ rst = RstIdle /\ fer = FerIdle
    /\ prj = [pc |-> "ready", requests |-> 0, id |-> 0, project_id |-> 0,
              last |-> "none", status |-> 0,
              stored |-> NoProject, analysis |-> NoAnalysis,
              location_changed |-> FALSE,
              threads |-> [t \in PrjThreads |-> PrjFree]]

\* POST /projects/create up to its INSERT: 401 without a session, 400 when a
\* field is missing, else the analysis of the position sent (lines 777-787).
CreateProject ==
    /\ prj.requests < MaxRequests
    /\ ~prj.stored.exists
    /\ \A other \in PrjThreads : prj.threads[other].handler # "create"
    /\ \E thread \in PrjFreeThread, logged_in \in BOOLEAN, has_fields \in BOOLEAN,
          latitude \in PrjLatitudes, longitude \in PrjLongitudes,
          area_hectares \in PrjAreas :
       \E climate_data \in ClimateDataReturns(latitude, longitude),
          elevation \in ElevationDataReturns(latitude, longitude) :
          LET ai_analysis == projects_analysis(latitude, longitude,
                                 area_hectares, climate_data, elevation)
              answer(status) ==
                  PrjRespond(thread, PrjFree, "create", status, prj.stored,
                             NoAnalysis, FALSE)
          IN  IF ~logged_in THEN answer(401)
              ELSE IF ~has_fields THEN answer(400)
              ELSE PrjRespond(thread,
                       [pc |-> "insert", handler |-> "create", id |-> 0,
                        status |-> 0,
                        latitude |-> latitude, longitude |-> longitude,
                        area_hectares |-> area_hectares,
                        location_changed |-> FALSE, analysis |-> ai_analysis],
                       "create", 0, prj.stored, NoAnalysis, FALSE)

\* The analysis has returned: 500 when it is None (lines 783-784), else the
\* INSERT of lines 791-828 and its commit (line 829); the request goes on to
\* the notification of line 836 with the id of its row.
InsertProject ==
    \E thread \in PrjThreads :
        LET request == prj.threads[thread]
        IN  /\ request.pc = "insert"
            /\ IF request.analysis.none
               THEN PrjRespond(thread, PrjFree, "create", 500, prj.stored,
                               NoAnalysis, FALSE)
               ELSE PrjRespond(thread,
                        PrjCommitted("create", prj.id + 1, 201, request.analysis,
                                     FALSE),
                        "create", 0,
                        StoreAnalysis(request.latitude, request.longitude,
                                      request.area_hectares, request.analysis),
                        NoAnalysis, FALSE)

\* create_notification after the commit of a handler (lines 836, 1064, 1120,
\* 1505): its INSERT and commit, or the exception it swallows when the
\* project is gone; then the handler answers with the status, the analysis
\* and the location_changed it holds. No row of projects is written.
PrjCreateNotification ==
    \E thread \in PrjThreads :
        LET request == prj.threads[thread]
        IN  /\ request.pc = "notify"
            /\ PrjRespond(thread, PrjFree, request.handler, request.status,
                   prj.stored, request.analysis, request.location_changed)

\* POST /projects/<id>/reanalyze up to the return of the analysis: the SELECT
\* of line 1459 and the analysis of the position it read (lines 1469-1473),
\* which is None when a service fails.
ReanalyzeProject ==
    /\ prj.requests < MaxRequests
    /\ \E thread \in PrjFreeThread, logged_in \in BOOLEAN :
          LET answer(status) == PrjRespond(thread, PrjFree, "reanalyze", status,
                                    prj.stored, NoAnalysis, FALSE)
          IN  /\ prj.threads[thread].pc = "free"
              /\ IF ~logged_in THEN answer(401)
                 ELSE IF ~prj.stored.exists THEN answer(404)
                 ELSE \E climate_data \in ClimateDataReturns(prj.stored.latitude,
                                                            prj.stored.longitude),
                         elevation \in ElevationDataReturns(prj.stored.latitude,
                                                            prj.stored.longitude) :
                         LET ai_analysis == projects_analysis(prj.stored.latitude,
                                                prj.stored.longitude,
                                                prj.stored.area_hectares,
                                                climate_data, elevation)
                         IN  PrjRespond(thread,
                                      [PrjFree EXCEPT !.pc = "update",
                                                      !.handler = "reanalyze",
                                                      !.id = prj.id,
                                                      !.analysis = ai_analysis],
                                      "reanalyze", 0, prj.stored, NoAnalysis, FALSE)

\* The analysis has returned: 500 when it is None (lines 1475-1477), else the
\* UPDATE of reanalyze_project (lines 1480-1499) and its commit (line 1501),
\* WHERE id = %s: it writes the row of that id as it is stored now, or no
\* row; the request goes on to the notification of line 1505.
StoreReanalyzed ==
    \E thread \in PrjThreads :
        LET request == prj.threads[thread]
        IN  /\ request.pc = "update" /\ request.handler = "reanalyze"
            /\ IF request.analysis.none
               THEN PrjRespond(thread, PrjFree, "reanalyze", 500, prj.stored,
                               NoAnalysis, FALSE)
               ELSE PrjRespond(thread,
                        PrjCommitted("reanalyze", request.id, 200,
                                     request.analysis, FALSE),
                        "reanalyze", 0,
                        IF prj.stored.exists /\ prj.id = request.id
                        THEN StoreReanalysis(prj.stored, request.analysis)
                        ELSE prj.stored,
                        NoAnalysis, FALSE)

\* POST /projects/<id>/update up to its UPDATE: the SELECT of line 947, the
\* comparison with the row it read and the analysis of the new position,
\* which is None when a service fails. A
\* field the request leaves out keeps the value read, which is the same as
\* sending that value.
UpdateProject ==
    /\ prj.requests < MaxRequests
    /\ \E thread \in PrjFreeThread, logged_in \in BOOLEAN :
          LET answer(status, changed) ==
                  PrjRespond(thread, PrjFree, "update", status, prj.stored,
                             NoAnalysis, changed)
          IN  /\ prj.threads[thread].pc = "free"
              /\ IF ~logged_in THEN answer(401, FALSE)
                 ELSE IF ~prj.stored.exists THEN answer(404, FALSE)
                 ELSE \E latitude \in PrjLatitudes, longitude \in PrjLongitudes,
                         area_hectares \in PrjAreas :
                      \E climate_data \in ClimateDataReturns(latitude, longitude),
                         elevation \in ElevationDataReturns(latitude, longitude) :
                         LET location_changed ==
                                 \/ latitude # prj.stored.latitude
                                 \/ longitude # prj.stored.longitude
                                 \/ area_hectares # prj.stored.area_hectares
                             ai_analysis == projects_analysis(latitude, longitude,
                                                area_hectares, climate_data, elevation)
                             go_on(analysis) ==
                                 PrjRespond(thread,
                                     [pc |-> "update", handler |-> "update",
                                      id |-> prj.id, status |-> 0,
                                      latitude |-> latitude, longitude |-> longitude,
                                      area_hectares |-> area_hectares,
                                      location_changed |-> location_changed,
                                      analysis |-> analysis],
                                     "update", 0, prj.stored, NoAnalysis,
                                     location_changed)
                         IN  IF ~location_changed THEN go_on(NoAnalysis)
                             ELSE go_on(ai_analysis)

\* The analysis, if any, has returned: 500 when the position changed and the
\* analysis is None (lines 980-982), else the UPDATE of update_project: every
\* analysis column with the position (lines 988-1037) when the request found
\* the position changed, name,
\* description and project_type alone (lines 1049-1056) when it did not,
\* and the commit. After a change of position the notification of line 1040
\* is inserted on the same connection before the UPDATE is committed, so
\* other requests see the row change once, when create_notification
\* commits; line 1058 commits the other UPDATE. It writes the row of that id
\* as it is stored now, or no row; the request goes on to the notification
\* of line 1064.
StoreUpdated ==
    \E thread \in PrjThreads :
        LET request == prj.threads[thread]
        IN  /\ request.pc = "update" /\ request.handler = "update"
            /\ IF request.location_changed /\ request.analysis.none
               THEN PrjRespond(thread, PrjFree, "update", 500, prj.stored,
                               NoAnalysis, TRUE)
               ELSE PrjRespond(thread,
                        PrjCommitted("update", request.id, 200, request.analysis,
                                     request.location_changed),
                        "update", 0,
                        IF prj.stored.exists /\ prj.id = request.id
                           /\ request.location_changed
                        THEN StoreAnalysis(request.latitude, request.longitude,
                                           request.area_hectares, request.analysis)
                        ELSE prj.stored,
                        NoAnalysis, request.location_changed)

\* DELETE /projects/<id>/delete up to its DELETE: the SELECT of line 1100.
PrjDeleteProject ==
    /\ prj.requests < MaxRequests
    /\ \E thread \in PrjFreeThread, logged_in \in BOOLEAN :
          LET answer(status) == PrjRespond(thread, PrjFree, "delete", status,
                                    prj.stored, NoAnalysis, FALSE)
          IN  /\ prj.threads[thread].pc = "free"
              /\ IF ~logged_in THEN answer(401)
                 ELSE IF ~prj.stored.exists THEN answer(404)
                 ELSE PrjRespond(thread,
                          [PrjFree EXCEPT !.pc = "delete", !.handler = "delete",
                                          !.id = prj.id],
                          "delete", 0, prj.stored, NoAnalysis, FALSE)

\* The DELETE of line 1111 and its commit (line 1114); the request goes on
\* to the notification of line 1120.
PrjDeleteRow ==
    \E thread \in PrjThreads :
        /\ prj.threads[thread].pc = "delete"
        /\ PrjRespond(thread,
               PrjCommitted("delete", prj.threads[thread].id, 200, NoAnalysis,
                            FALSE),
               "delete", 0,
               IF prj.id = prj.threads[thread].id THEN NoProject ELSE prj.stored,
               NoAnalysis, FALSE)

NextProjects ==
    \/ CreateProject
    \/ InsertProject
    \/ ReanalyzeProject
    \/ StoreReanalyzed
    \/ UpdateProject
    \/ StoreUpdated
    \/ PrjDeleteProject
    \/ PrjDeleteRow
    \/ PrjCreateNotification

SpecProjects == InitProjects /\ [][NextProjects]_vars

ClaimedAnalysisFields ==
    {"soil_type", "soil_ph", "soil_fertility", "climate_zone", "annual_rainfall",
     "vegetation_index", "land_degradation_level", "recommended_crops",
     "recommended_trees", "restoration_techniques",
     "estimated_timeline_months", "estimated_budget"}

\* The last statement answered a request that ran a new analysis, with the
\* answer 200 and the project it named still stored.
Reanalyzed ==
    /\ prj.status = 200
    /\ prj.stored.exists
    /\ prj.project_id = prj.id
    /\ \/ prj.last = "reanalyze"
       \/ prj.last = "update" /\ prj.location_changed

\* C19: after any successful re-analysis of a project (the reanalyze endpoint,
\* or an update that changes latitude, longitude or area) every stored
\* analysis field equals the field of the new analysis; nothing of the
\* previous analysis remains stored.
C19_StoredEqualsNewAnalysis ==
    Reanalyzed =>
        \A field \in ClaimedAnalysisFields : prj.stored[field] = prj.analysis[field]

\* The NDVI estimate of the analysis without the recent-temperature bias.
BiasFreeNdvi == _estimate_ndvi(est.latitude, est.longitude, EstWeather, NoClimate)

\* The temperature series of the climate history; empty when there is none.
HistoryTemps ==
    IF est.out.climate_history.none THEN <<>>
    ELSE est.out.climate_history.time_series.temperature

LatestReading == HistoryTemps[Len(HistoryTemps)]

\* latest > mean + 2, over the integers
LatestAboveMean ==
    /\ HistoryTemps # <<>>
    /\ LatestReading * Len(HistoryTemps) > Sum(HistoryTemps) + 2 * Len(HistoryTemps)

\* latest < mean - 2
LatestBelowMean ==
    /\ HistoryTemps # <<>>
    /\ LatestReading * Len(HistoryTemps) < Sum(HistoryTemps) - 2 * Len(HistoryTemps)

ServiceEstimated == est.pc = "done" /\ est.impl = "service" /\ ~est.out.none

\* C20: the bias changes the estimate only with a non-empty temperature
\* series: it adds 0.03 when the latest reading exceeds the series mean by
\* more than 2, subtracts 0.03 when it is below the mean by more than 2, and
\* leaves the value unchanged otherwise; the result stays within [0, 1].
C20_BiasAsStated ==
    ServiceEstimated =>
        /\ est.out.vegetation_index =
               IF LatestAboveMean THEN BiasFreeNdvi + 3
               ELSE IF LatestBelowMean THEN BiasFreeNdvi - 3
               ELSE BiasFreeNdvi
        /\ est.out.vegetation_index \in 0..100

\* C20 (amended): as C20, the subtraction stopping at 0: below the mean by
\* more than 2 the result is max(0, estimate - 0.03).
C20_BiasClampedAtZero ==
    ServiceEstimated =>
        /\ est.out.vegetation_index =
               IF LatestAboveMean THEN BiasFreeNdvi + 3
               ELSE IF LatestBelowMean THEN Max(0, BiasFreeNdvi - 3)
               ELSE BiasFreeNdvi
        /\ est.out.vegetation_index \in 0..100

\* A bias-free estimate under 0.03 with the latest reading below the mean.
C20_Witness ==
    /\ ServiceEstimated
    /\ LatestBelowMean
    /\ BiasFreeNdvi < 3
    /\ est.out.vegetation_index = 0

-----------------------------------------------------------------------------
(* SpecProjectClimate: one call of get_real_climate_data (app/projects.py) *)
(* for a latitude within [-90, 90] degrees, with the configured key, the   *)
(* outcome of the request and the body of a 200 response as inputs.        *)

\* Half-degrees: 166 is 83 degrees, 167 is 83.5, 180 is 90.
PcdLatitudes == {-180, -167, -166, 0, 47, 94, 166, 167, 180}

PcdLongitudes == {0, 59}

PcdKeys == {"", "your_key_here", "k"}

InitProjectClimate ==
    /\ est = EstIdle /\ deg = DegIdle /\ clim = ClimIdle /\ cli = CliIdle
    /\ ana = AnaIdle /\ rec = RecIdle /\ trd = TrdIdle /\ alr = AlrIdle
    /\ prj = PrjIdle /\ sta = StaIdle /\ rst = RstIdle /\ fer = FerIdle
    /\ \E latitude \in PcdLatitudes, longitude \in PcdLongitudes,
          api_key \in PcdKeys, http \in HttpResults,
          data \in ProjectsWeatherPayloads :
          pcd = [pc |-> "call", latitude |-> latitude, longitude |-> longitude,
                 api_key |-> api_key, http |-> http, data |-> data,
                 result |-> get_fallback_climate_data(0, 0)]

GetRealClimateData ==
    /\ pcd.pc = "call"
    /\ pcd' = [pcd EXCEPT !.pc = "done",
                          !.result = get_real_climate_data(pcd.latitude,
                                         pcd.longitude, pcd.api_key, pcd.http,
                                         pcd.data)]
    /\ UNCHANGED <<est, deg, clim, cli, ana, rec, trd, alr, prj, sta, rst, fer>>

NextProjectClimate == GetRealClimateData

SpecProjectClimate == InitProjectClimate /\ [][NextProjectClimate]_vars

\* The live fetch is unavailable: no usable key, an exception, a status other
\* than 200, or a 200 body that lacks a field the client reads.
LiveFetchUnavailable ==
    \/ pcd.api_key \in {"", "your_key_here"}
    \/ pcd.http.raised
    \/ pcd.http.status # 200
    \/ pcd.data.shape # "ok"
    \/ ~pcd.data.has_humidity

\* C21: whenever the live weather fetch is unavailable, get_real_climate_data
\* returns the coordinate-derived fallback, and the temperature of that
\* fallback lies in [-20, 45] degrees for every latitude in [-90, 90].
C21_FallbackInRange ==
    (pcd.pc = "done" /\ LiveFetchUnavailable) =>
        /\ pcd.result = get_fallback_climate_data(pcd.latitude, pcd.longitude)
        /\ pcd.result.temperature \in -200..450

-----------------------------------------------------------------------------
(* SpecStatus: the projects table and the notifications table under the    *)
(* project handlers of app/projects.py and the delete route of             *)
(* app/notifications.py, requested in any order from the session of any    *)
(* user. A row keeps its owner, status, progress, dates, a name and the    *)
(* number of analyses written to it; progress in the table is a whole      *)
(* percentage. A JSON number sent as progress_percentage is in tenths, so  *)
(* that int() has something to truncate; null or an absent key is None.    *)
(* Requests are served by threads, each on its own connection: a request   *)
(* advances statement by statement and the statements of two requests      *)
(* interleave. A step is a transaction: the statements up to a commit.     *)

MaxSteps == 3

Users == {"A", "B"}

NoSession == "anonymous"

ProjectIds == {1, 2}

StatusThreads == {1, 2}

ValidStatuses == {"planning", "active", "completed", "paused"}

StatusInputs == ValidStatuses \cup {"archived"}

\* progress_percentage of an update-status request, in tenths:
\* -1, -0.5, 24, 25, 100, 100.5 and 101.
StatusProgressInputs ==
    {None} \cup {Num(t) : t \in {-10, -5, 240, 250, 1000, 1005, 1010}}

\* progress_percentage of an update-progress request, whole numbers.
ProgressInputs == {-5, 0, 50, 100, 150}

\* int(x) truncates toward zero.
int(tenths) == IF tenths >= 0 THEN tenths \div 10 ELSE -((-tenths) \div 10)

NoRow ==
    [exists |-> FALSE, user_id |-> NoSession, status |-> "planning",
     progress_percentage |-> 0, start_date |-> FALSE, end_date |-> FALSE,
     name |-> 0, analyses |-> 0]

\* A row of the notifications table; project_id 0 is NULL.
Notification(user_id, type, project_id, milestone) ==
    [user_id |-> user_id, type |-> type, project_id |-> project_id,
     milestone |-> milestone]

NoRequest == [status |-> "", progress |-> None]

\* A thread that serves no request. first, read and wrote are the row the
\* request named when its first statement ran, right before and right after
\* its write; touched: a statement of the request changed the projects table;
\* others: a statement of it changed a notification of another user; created:
\* the notifications it inserted; pending: those it has still to insert.
\* flag is what the request decided from the row it read (start_date is to be
\* set, the location changed) and name the name it sent.
StatusFree ==
    [pc |-> "free", handler |-> "", user |-> NoSession, project_id |-> 0,
     request |-> NoRequest, code |-> 0, revealed |-> FALSE,
     old_status |-> "", old_progress |-> 0, flag |-> FALSE, name |-> 0,
     first |-> NoRow, read |-> NoRow, wrote |-> NoRow,
     touched |-> FALSE, others |-> FALSE, created |-> <<>>, pending |-> <<>>]

\* The request of a thread as its first statement runs.
Started(handler, user, project_id, request) ==
    [StatusFree EXCEPT !.handler = handler, !.user = user,
                       !.project_id = project_id, !.request = request,
                       !.first = IF project_id \in ProjectIds
                                 THEN sta.projects[project_id] ELSE NoRow,
                       !.read = IF project_id \in ProjectIds
                                THEN sta.projects[project_id] ELSE NoRow,
                       !.wrote = IF project_id \in ProjectIds
                                 THEN sta.projects[project_id] ELSE NoRow]

\* What is kept of a request that was answered.
Answered(request) ==
    [handler |-> request.handler, user |-> request.user,
     project_id |-> request.project_id, code |-> request.code,
     revealed |-> request.revealed, request |-> request.request,
     first |-> request.first, read |-> request.read, wrote |-> request.wrote,
     touched |-> request.touched, others |-> request.others,
     created |-> request.created]

\* The notifications of the users other than user.
RECURSIVE RowsOfOthers(_, _)
RowsOfOthers(rows, user) ==
    IF rows = <<>> THEN <<>>
    ELSE (IF Head(rows).user_id # user THEN <<Head(rows)>> ELSE <<>>)
         \o RowsOfOthers(Tail(rows), user)

\* FOREIGN KEY (project_id) REFERENCES projects(id) ON DELETE CASCADE
RECURSIVE cascade(_, _)
cascade(rows, project_id) ==
    IF rows = <<>> THEN <<>>
    ELSE (IF Head(rows).project_id # project_id THEN <<Head(rows)>> ELSE <<>>)
         \o cascade(Tail(rows), project_id)

\* One transaction of the request of a thread: the tables after it and the
\* request after it, which goes on at pc or, with pc "free", is answered with
\* request.code.
Respond(thread, request, pc, projects, notifications, next_id) ==
    LET after == [request EXCEPT
                     !.pc = pc,
                     !.touched = @ \/ projects # sta.projects,
                     !.others = @ \/ RowsOfOthers(notifications, request.user)
                                      # RowsOfOthers(sta.notifications, request.user)]
    IN  /\ sta' = [pc |-> "ready",
                   steps |-> IF sta.threads[thread].pc = "free"
                             THEN sta.steps + 1 ELSE sta.steps,
                   projects |-> projects,
                   notifications |-> notifications,
                   next_id |-> next_id,
                   threads |-> [sta.threads EXCEPT
                                   ![thread] = IF pc = "free" THEN StatusFree
                                               ELSE after],
                   last |-> IF pc = "free" THEN Answered(after) ELSE sta.last]
        /\ UNCHANGED <<est, deg, clim, cli, ana, rec, trd, alr, prj, pcd, rst, fer>>

\* The request is answered with the code and nothing is written.
Reject(thread, request, code) ==
    Respond(thread, [request EXCEPT !.code = code], "free",
            sta.projects, sta.notifications, sta.next_id)

\* The request has committed its write: it is answered with request.code when
\* it has no notification to create, else it goes on to create_notification.
Committed(thread, request, pending, projects, notifications, next_id) ==
    Respond(thread, [request EXCEPT !.pending = pending],
            IF pending = <<>> THEN "free" ELSE "notify",
            projects, notifications, next_id)

InitStatus ==
    /\ est = EstIdle /\ deg = DegIdle /\ clim = ClimIdle /\ cli = CliIdle
    /\ ana = AnaIdle /\ rec = RecIdle /\ trd = TrdIdle /\ alr = AlrIdle
    /\ prj = PrjIdle /\ pcd = PcdIdle /\ rst = RstIdle /\ fer = FerIdle
    /\ sta = [pc |-> "ready", steps |-> 0,
              projects |-> [p \in ProjectIds |-> NoRow],
              notifications |-> <<>>,
              next_id |-> 1,
              threads |-> [t \in StatusThreads |-> StatusFree],
              last |-> Answered([StatusFree EXCEPT !.handler = "none"])]

\* SELECT ... WHERE id = %s AND user_id = %s
Owned(project_id, user) ==
    /\ sta.projects[project_id].exists
    /\ sta.projects[project_id].user_id = user

\* A request can start: a thread is free. Free threads are alike, the
\* request takes the first.
CanStart ==
    /\ sta.steps < MaxSteps
    /\ \E t \in StatusThreads : sta.threads[t].pc = "free"

FreeThread ==
    CHOOSE t \in StatusThreads :
        /\ sta.threads[t].pc = "free"
        /\ \A u \in StatusThreads : sta.threads[u].pc = "free" => t <= u

\* The requests that wait for the analysis of create_project.
Creating == {t \in StatusThreads : sta.threads[t].pc = "insert"}

\* POST /projects/create up to the call of the analysis (line 777): 401 without
\* a session, 400 when a required field is missing. Every row to come has its
\* id in ProjectIds.
StatusCreateProject ==
    /\ CanStart
    /\ sta.next_id + Cardinality(Creating) \in ProjectIds
    /\ \E user \in Users \cup {NoSession}, has_fields \in BOOLEAN :
          LET request == Started("create", user, 0, NoRequest)
          IN  IF user = NoSession THEN Reject(FreeThread, request, 401)
              ELSE IF ~has_fields THEN Reject(FreeThread, request, 400)
              ELSE Respond(FreeThread, request, "insert",
                       sta.projects, sta.notifications, sta.next_id)

\* The analysis of create_project has returned: 500 when it is None (lines
\* 783-784), else the INSERT and its commit (lines 791-829); the row gets the
\* next AUTO_INCREMENT id and starts in 'planning' with progress 0 (the column
\* default), start_date today and no end_date.
StatusInsertProject ==
    \E thread \in StatusThreads, analysis_ok \in BOOLEAN :
        LET request == sta.threads[thread]
            user == request.user
            id == sta.next_id
        IN  /\ request.pc = "insert"
            /\ IF ~analysis_ok THEN Reject(thread, request, 500)
               ELSE Committed(thread,
                       [request EXCEPT
                           !.project_id = id, !.code = 201,
                           !.wrote = [exists |-> TRUE, user_id |-> user,
                                      status |-> "planning",
                                      progress_percentage |-> 0,
                                      start_date |-> TRUE, end_date |-> FALSE,
                                      name |-> 0, analyses |-> 1]],
                       <<Notification(user, "project_created", id, 0)>>,
                       [sta.projects EXCEPT ![id] =
                           [exists |-> TRUE, user_id |-> user, status |-> "planning",
                            progress_percentage |-> 0, start_date |-> TRUE,
                            end_date |-> FALSE, name |-> 0, analyses |-> 1]],
                       sta.notifications, id + 1)

\* create_notification: one INSERT and its commit. The INSERT fails when the
\* project of the notification is no longer stored; the exception is caught
\* and the request goes on. After the last one the request is answered.
CreateNotification ==
    \E thread \in StatusThreads :
        LET request == sta.threads[thread]
            row == Head(request.pending)
            inserted == row.project_id = 0 \/ sta.projects[row.project_id].exists
            rest == Tail(request.pending)
        IN  /\ request.pc = "notify"
            /\ Respond(thread,
                   [request EXCEPT
                       !.pending = rest,
                       !.created = IF inserted THEN Append(@, row) ELSE @],
                   IF rest = <<>> THEN "free" ELSE "notify",
                   sta.projects,
                   IF inserted THEN Append(sta.notifications, row)
                   ELSE sta.notifications,
                   sta.next_id)

\* for milestone in [25, 50, 75]: if old_progress < milestone <= progress
milestone_notifications(user, project_id, old_progress, progress) ==
    LET hit(m) == IF old_progress < m /\ m <= progress
                  THEN <<Notification(user, "milestone_reached", project_id, m)>>
                  ELSE <<>>
    IN  hit(25) \o hit(50) \o hit(75)

\* The notifications of lines 1249-1287.
status_notifications(user, project_id, old_status, status, old_progress, progress) ==
    (IF status # old_status
     THEN <<Notification(user,
                IF status = "completed" THEN "project_completed" ELSE "status_changed",
                project_id, 0)>>
     ELSE <<>>)
    \o
    (IF ~progress.none /\ Abs(progress.n - old_progress) >= 5
     THEN <<Notification(user, "progress_updated", project_id, 0)>>
          \o milestone_notifications(user, project_id, old_progress, progress.n)
     ELSE <<>>)

\* The progress update_project_status goes on with: int() of the progress
\* sent, else 0 for planning and 100 for completed, else None.
status_progress(request) ==
    IF ~request.progress.none THEN Num(int(request.progress.n))
    ELSE IF request.status = "planning" THEN Num(0)
    ELSE IF request.status = "completed" THEN Num(100)
    ELSE None

\* POST /projects/<id>/update-status up to its UPDATE: the validation and the
\* SELECT of line 1193, which gives the old status and the old progress.
UpdateProjectStatus ==
    /\ CanStart
    /\ \E user \in Users \cup {NoSession}, project_id \in ProjectIds,
          status \in StatusInputs, sent \in StatusProgressInputs :
          LET request == Started("update_status", user, project_id,
                                 [status |-> status, progress |-> sent])
              given == IF sent.none THEN None ELSE Num(int(sent.n))
              row == sta.projects[project_id]
          IN  IF user = NoSession THEN Reject(FreeThread, request, 401)
              ELSE IF status \notin ValidStatuses THEN Reject(FreeThread, request, 400)
              ELSE IF ~given.none /\ (given.n < 0 \/ given.n > 100)
              THEN Reject(FreeThread, request, 400)
              ELSE IF ~Owned(project_id, user) THEN Reject(FreeThread, request, 404)
              ELSE Respond(FreeThread,
                       [request EXCEPT
                           !.old_status = row.status,
                           !.old_progress = row.progress_percentage,
                           !.flag = row.status = "planning" /\ status = "active"
                                    /\ ~row.start_date],
                       "update", sta.projects, sta.notifications, sta.next_id)

\* The UPDATE of lines 1219-1234. cur.rowcount is the number of rows changed:
\* 0 when the row is gone, and when every column keeps its value, updated_at
\* (kept to the second) included; then the answer is 404 and nothing is
\* committed.
UpdateStatusRow ==
    \E thread \in StatusThreads :
        LET request == sta.threads[thread]
            row == sta.projects[request.project_id]
            progress == status_progress(request.request)
            new == [row EXCEPT
                       !.status = request.request.status,
                       !.progress_percentage =
                           IF progress.none THEN @ ELSE progress.n,
                       !.start_date = IF request.flag THEN TRUE ELSE @,
                       !.end_date = IF request.request.status = "completed"
                                    THEN TRUE ELSE @]
        IN  /\ request.pc = "update" /\ request.handler = "update_status"
            /\ \E same_second \in IF row.exists /\ new = row THEN BOOLEAN ELSE {FALSE} :
                  IF ~row.exists \/ same_second
                  THEN Reject(thread, [request EXCEPT !.read = row, !.wrote = row], 404)
                  ELSE Respond(thread,
                           [request EXCEPT !.read = row, !.wrote = new],
                           "reselect",
                           [sta.projects EXCEPT ![request.project_id] = new],
                           sta.notifications, sta.next_id)

\* The SELECT of lines 1237-1243 and the notifications that follow from the
\* old status and progress. With the row gone updated_project is None, the
\* subscript raises and the answer is 500.
ReselectStatusRow ==
    \E thread \in StatusThreads :
        LET request == sta.threads[thread]
        IN  /\ request.pc = "reselect"
            /\ IF ~Owned(request.project_id, request.user)
               THEN Reject(thread, request, 500)
               ELSE Committed(thread,
                        [request EXCEPT !.code = 200, !.revealed = TRUE],
                        status_notifications(request.user, request.project_id,
                            request.old_status, request.request.status,
                            request.old_progress,
                            status_progress(request.request)),
                        sta.projects, sta.notifications, sta.next_id)

\* POST /projects/<id>/update-progress: one UPDATE that names the owner in
\* its WHERE clause, and the same answer whether a row matched or not.
UpdateProgress ==
    /\ CanStart
    /\ \E user \in Users \cup {NoSession}, project_id \in ProjectIds,
          progress \in ProgressInputs :
          LET request == Started("update_progress", user, project_id,
                                 [status |-> "", progress |-> Num(progress * 10)])
              row == sta.projects[project_id]
              new == [row EXCEPT
                         !.progress_percentage = progress,
                         !.status = IF progress >= 100 THEN "completed"
                                    ELSE IF progress > 0 THEN "active"
                                    ELSE @]
          IN  IF user = NoSession THEN Reject(FreeThread, request, 401)
              ELSE IF ~Owned(project_id, user) THEN Reject(FreeThread, request, 200)
              ELSE Respond(FreeThread,
                       [request EXCEPT !.code = 200, !.wrote = new], "free",
                       [sta.projects EXCEPT ![project_id] = new],
                       sta.notifications, sta.next_id)

\* POST /projects/<id>/update up to its UPDATE: the SELECT of line 947, the
\* comparison of the position sent with the row read (lines 958-969) and, when
\* it differs, the call of the analysis (line 974).
StatusUpdateProject ==
    /\ CanStart
    /\ \E user \in Users \cup {NoSession}, project_id \in ProjectIds,
          location_changed \in BOOLEAN, name \in {0, 1} :
          LET request == [Started("update", user, project_id, NoRequest)
                             EXCEPT !.name = name]
          IN  IF user = NoSession THEN Reject(FreeThread, request, 401)
              ELSE IF ~Owned(project_id, user) THEN Reject(FreeThread, request, 404)
              ELSE Respond(FreeThread, [request EXCEPT !.flag = location_changed],
                       "update", sta.projects, sta.notifications, sta.next_id)

\* The analysis, if any, has returned: 500 when the position changed and the
\* analysis is None (lines 980-982). Else the transaction of update_project:
\* the UPDATE that writes the name sent and, after a change of position, the
\* analysis, with the analysis_complete notification created before the
\* commit of line 1058; project_updated follows. A row that is gone is not
\* written and its notifications are not inserted.
StatusStoreUpdated ==
    \E thread \in StatusThreads, analysis_ok \in BOOLEAN :
        LET request == sta.threads[thread]
            row == sta.projects[request.project_id]
            new == IF ~row.exists THEN row
                   ELSE [row EXCEPT !.name = request.name,
                                    !.analyses = IF request.flag THEN @ + 1 ELSE @]
            note == Notification(request.user, "analysis_complete",
                                 request.project_id, 0)
            inserted == request.flag /\ row.exists
        IN  /\ request.pc = "update" /\ request.handler = "update"
            /\ ~request.flag => analysis_ok
            /\ IF ~analysis_ok THEN Reject(thread, request, 500)
               ELSE Committed(thread,
                       [request EXCEPT
                           !.code = 200, !.read = row, !.wrote = new,
                           !.created = IF inserted THEN Append(@, note) ELSE @],
                       <<Notification(request.user, "project_updated",
                                      request.project_id, 0)>>,
                       [sta.projects EXCEPT ![request.project_id] = new],
                       IF inserted THEN Append(sta.notifications, note)
                       ELSE sta.notifications,
                       sta.next_id)

\* POST /projects/<id>/reanalyze up to the call of the analysis: the SELECT
\* of line 1459.
StatusReanalyzeProject ==
    /\ CanStart
    /\ \E user \in Users \cup {NoSession}, project_id \in ProjectIds :
          LET request == Started("reanalyze", user, project_id, NoRequest)
          IN  IF user = NoSession THEN Reject(FreeThread, request, 401)
              ELSE IF ~Owned(project_id, user) THEN Reject(FreeThread, request, 404)
              ELSE Respond(FreeThread, request, "update",
                       sta.projects, sta.notifications, sta.next_id)

\* The analysis has returned: 500 when it is None (lines 1475-1477), else the
\* UPDATE of reanalyze_project (WHERE id = %s) and its commit; the answer is
\* 200 with the analysis, whether a row matched or not.
StatusStoreReanalyzed ==
    \E thread \in StatusThreads, analysis_ok \in BOOLEAN :
        LET request == sta.threads[thread]
            row == sta.projects[request.project_id]
            new == IF row.exists THEN [row EXCEPT !.analyses = @ + 1] ELSE row
        IN  /\ request.pc = "update" /\ request.handler = "reanalyze"
            /\ IF ~analysis_ok THEN Reject(thread, request, 500)
               ELSE Committed(thread,
                       [request EXCEPT !.code = 200, !.revealed = TRUE,
                                       !.read = row, !.wrote = new],
                       <<Notification(request.user, "analysis_complete",
                                      request.project_id, 0)>>,
                       [sta.projects EXCEPT ![request.project_id] = new],
                       sta.notifications, sta.next_id)

\* DELETE /projects/<id>/delete up to its DELETE: the SELECT of line 1100.
DeleteProject ==
    /\ CanStart
    /\ \E user \in Users \cup {NoSession}, project_id \in ProjectIds :
          LET request == Started("delete", user, project_id, NoRequest)
          IN  IF user = NoSession THEN Reject(FreeThread, request, 401)
              ELSE IF ~Owned(project_id, user) THEN Reject(FreeThread, request, 404)
              ELSE Respond(FreeThread, request, "delete",
                       sta.projects, sta.notifications, sta.next_id)

\* The DELETE of line 1111 and its commit: the row goes, and with it every
\* notification of the project (ON DELETE CASCADE); project_deleted, which
\* names no project, follows.
DeleteRow ==
    \E thread \in StatusThreads :
        LET request == sta.threads[thread]
            row == sta.projects[request.project_id]
        IN  /\ request.pc = "delete"
            /\ Committed(thread,
                   [request EXCEPT !.code = 200, !.read = row, !.wrote = NoRow],
                   <<Notification(request.user, "project_deleted", 0, 0)>>,
                   [sta.projects EXCEPT ![request.project_id] = NoRow],
                   IF row.exists THEN cascade(sta.notifications, request.project_id)
                   ELSE sta.notifications,
                   sta.next_id)

\* GET /projects/<id> and GET /projects/<id>/report: the page of the row, or
\* a redirect to the project list with the flash 'Project not found'; 302 to
\* the login page without a session. 404 stands for the not-found redirect.
ReadProject ==
    /\ CanStart
    /\ \E user \in Users \cup {NoSession}, project_id \in ProjectIds,
          handler \in {"detail", "report"} :
          LET request == Started(handler, user, project_id, NoRequest)
          IN  IF user = NoSession THEN Reject(FreeThread, request, 302)
              ELSE IF ~Owned(project_id, user) THEN Reject(FreeThread, request, 404)
              ELSE Reject(FreeThread, [request EXCEPT !.revealed = TRUE], 200)

\* The rows but the one at the position.
RemoveAt(rows, position) ==
    SubSeq(rows, 1, position - 1) \o SubSeq(rows, position + 1, Len(rows))

\* DELETE /notifications/api/delete: DELETE FROM notifications WHERE id = %s
\* AND user_id = %s. The notification is named by its place in the table,
\* and the place after the last row stands for every id that names no row;
\* None is a request without notification_id and 0 the id 0, both answered
\* 400 by 'if not notification_id'. The row of another user is not deleted
\* and an id that names no row deletes nothing: both are answered 200.
ApiDelete ==
    /\ CanStart
    /\ \E user \in Users \cup {NoSession},
          notification_id \in {None} \cup {Num(k) : k \in 0..(Len(sta.notifications) + 1)} :
          LET request == Started("api_delete", user, 0, NoRequest)
              k == notification_id.n
          IN  IF user = NoSession THEN Reject(FreeThread, request, 401)
              ELSE IF notification_id.none \/ k = 0 THEN Reject(FreeThread, request, 400)
              ELSE Respond(FreeThread, [request EXCEPT !.code = 200], "free",
                       sta.projects,
                       IF k \in 1..Len(sta.notifications)
                          /\ sta.notifications[k].user_id = user
                       THEN RemoveAt(sta.notifications, k)
                       ELSE sta.notifications,
                       sta.next_id)

NextStatus ==
    \/ StatusCreateProject
    \/ StatusInsertProject
    \/ CreateNotification
    \/ UpdateProjectStatus
    \/ UpdateStatusRow
    \/ ReselectStatusRow
    \/ UpdateProgress
    \/ StatusUpdateProject
    \/ StatusStoreUpdated
    \/ StatusReanalyzeProject
    \/ StatusStoreReanalyzed
    \/ DeleteProject
    \/ DeleteRow
    \/ ReadProject
    \/ ApiDelete

SpecStatus == InitStatus /\ [][NextStatus]_vars

\* The row the last answered request named, right before and right after the
\* write of that request.
RowBefore == sta.last.read

RowAfter == sta.last.wrote

StatusUpdated == sta.last.handler = "update_status" /\ sta.last.user # NoSession

\* The progress the request supplied is outside 0..100 (tenths: 0..1000).
ProgressOutOfRange ==
    /\ ~sta.last.request.progress.none
    /\ \/ sta.last.request.progress.n < 0
       \/ sta.last.request.progress.n > 1000

\* The project was not a project of the caller when the request arrived.
NotOwnedByCaller ==
    ~(sta.last.first.exists /\ sta.last.first.user_id = sta.last.user)

\* The request was answered with an error, no statement of it changed the
\* projects table and it created no notification.
Rejected ==
    /\ sta.last.code >= 400
    /\ ~sta.last.touched
    /\ sta.last.created = <<>>

\* C22: update_project_status rejects with an error, leaving the stored
\* project unchanged and creating no notification, every request whose status
\* is not planning, active, completed or paused, or whose supplied progress is
\* outside 0..100, or whose project is not owned by the caller; when progress
\* is omitted, planning sets progress 0, completed sets 100, and active or
\* paused leave the stored progress unchanged.
C22_StatusUpdateValidated ==
    StatusUpdated =>
        /\ (\/ sta.last.request.status \notin {"planning", "active", "completed", "paused"}
            \/ ProgressOutOfRange
            \/ NotOwnedByCaller) => Rejected
        /\ (sta.last.code = 200 /\ sta.last.request.progress.none) =>
               RowAfter.progress_percentage =
                   CASE sta.last.request.status = "planning" -> 0
                     [] sta.last.request.status = "completed" -> 100
                     [] OTHER -> RowBefore.progress_percentage

\* C24: after any sequence of create, update-status and update-progress
\* requests the stored progress_percentage of a project is within 0..100.
C24_ProgressInRange ==
    \A p \in ProjectIds :
        sta.projects[p].exists => sta.projects[p].progress_percentage \in 0..100

\* C25: after any sequence of create, update-status and update-progress
\* requests every project whose status is completed has an end_date.
C25_CompletedHasEndDate ==
    \A p \in ProjectIds :
        (sta.projects[p].exists /\ sta.projects[p].status = "completed") =>
            sta.projects[p].end_date

Milestones == {25, 50, 75}

\* The milestone_reached notifications the last request created for m.
MilestoneNotifications(m) ==
    {i \in 1..Len(sta.last.created) :
        /\ sta.last.created[i].type = "milestone_reached"
        /\ sta.last.created[i].milestone = m
        /\ sta.last.created[i].user_id = RowBefore.user_id
        /\ sta.last.created[i].project_id = sta.last.project_id}

\* The stored progress went from below m to m or above.
CrossedUpwards(m) ==
    /\ RowBefore.progress_percentage < m
    /\ RowAfter.progress_percentage >= m

\* C30: whenever a status update raises the stored progress of a project from
\* below a milestone m in {25, 50, 75} to m or above, exactly one
\* milestone_reached notification for m is created for the owner; none is
\* created when the progress does not cross m upwards.
C30_MilestoneOnCrossing ==
    (sta.last.handler = "update_status" /\ sta.last.code = 200) =>
        \A m \in Milestones :
            Cardinality(MilestoneNotifications(m)) = IF CrossedUpwards(m) THEN 1 ELSE 0

ProjectRequests ==
    {"update", "update_status", "update_progress", "reanalyze", "delete",
     "detail", "report"}

\* The last answered request was sent in the session of a user and named a
\* project that a different user owned when it arrived.
ForeignRequest ==
    /\ sta.last.handler \in ProjectRequests
    /\ sta.last.user \in Users
    /\ sta.last.first.exists
    /\ sta.last.first.user_id # sta.last.user

\* No statement of the request changed a stored project or a notification of
\* another user, and nothing of the project was sent back.
NothingChangedOrRevealed ==
    /\ ~sta.last.touched
    /\ ~sta.last.revealed
    /\ ~sta.last.others

\* C26: a project request (update, update-status, update-progress, reanalyze,
\* delete, detail, report) sent in the session of user A for a project owned
\* by a different user B is answered not-found, changes and reveals no stored
\* field of the project, and leaves the notifications of B unchanged.
C26_ForeignProjectNotFound ==
    ForeignRequest =>
        /\ sta.last.code = 404
        /\ NothingChangedOrRevealed

-----------------------------------------------------------------------------
(***************************************************************************)
(* SpecReset: routes.py, register, reset_password and                      *)
(* reset_password_confirm, the routes that write the users table.  The     *)
(* clock is in minutes.  A token is the number of its issue: two tokens    *)
(* of secrets.token_urlsafe(32) are taken to differ under the comparison   *)
(* of the reset_token column.  A password hash is the number of its        *)
(* generation: generate_password_hash salts, so every hash is new.         *)
(* Requests are served by threads, each on its own connection: a request   *)
(* advances statement by statement, and the statements of two requests     *)
(* interleave.  A step is one statement with its commit.                   *)
(***************************************************************************)
MaxTokens == 2

MaxMinutes == 60

\* timedelta(hours=1)
hours == 1

\* The addresses a request can name; the first two have an account from the
\* start.
Emails == {"a@farm", "b@farm", "nobody@farm"}

InitialUsers == {"a@farm", "b@farm"}

EmailInputs == Emails \cup {""}

Forms == {"ok", "missing", "mismatch", "short"}

\* The registration form has an age as well.
RegisterForms == Forms \cup {"age"}

\* The row of an address: registered is FALSE while the table has no row
\* of it.
NoAccount ==
    [registered |-> FALSE, password_hash |-> 0, reset_token |-> None,
     reset_token_expiry |-> None]

NewAccount(password_hash) ==
    [registered |-> TRUE, password_hash |-> password_hash,
     reset_token |-> None, reset_token_expiry |-> None]

NoUser == "none"

ResetThreads == {1, 2}

\* A thread that serves no request. at is the time at which a reset request
\* read the clock for the expiry of its token.
ResetFree ==
    [pc |-> "free", handler |-> "", email |-> "", token |-> 0, at |-> 0]

\* No statement has run yet.
NoStatement ==
    [handler |-> "none", statement |-> "", email |-> "", token |-> 0,
     method |-> "", form |-> "", code |-> "", at |-> 0]

InitReset ==
    /\ est = EstIdle /\ deg = DegIdle /\ clim = ClimIdle /\ cli = CliIdle
    /\ ana = AnaIdle /\ rec = RecIdle /\ trd = TrdIdle /\ alr = AlrIdle
    /\ prj = PrjIdle /\ pcd = PcdIdle /\ sta = StaIdle /\ fer = FerIdle
    /\ rst = [pc |-> "ready", now |-> 0,
              users |-> [e \in Emails |->
                            IF e \in InitialUsers THEN NewAccount(0)
                            ELSE NoAccount],
              before |-> [e \in Emails |->
                            IF e \in InitialUsers THEN NewAccount(0)
                            ELSE NoAccount],
              issued |-> <<>>, used |-> {}, used_before |-> {}, hashes |-> 0,
              threads |-> [t \in ResetThreads |-> ResetFree],
              last |-> NoStatement]

\* One statement of the request of a thread has run at the present time;
\* code is the answer when the request ends with it, "" when it goes on.
ResetRespond(thread, next, statement, code, users, issued, used, hashes) ==
    /\ rst' = [rst EXCEPT !.users = users, !.before = rst.users,
                          !.issued = issued, !.used = used,
                          !.used_before = rst.used, !.hashes = hashes,
                          !.threads[thread] = next,
                          !.last = [statement EXCEPT !.code = code, !.at = rst.now]]
    /\ UNCHANGED <<est, deg, clim, cli, ana, rec, trd, alr, prj, pcd, sta, fer>>

\* The thread that takes the next request: free threads are alike, the
\* request takes the first.
ResetFreeThread ==
    {t \in ResetThreads :
        /\ rst.threads[t].pc = "free"
        /\ \A u \in ResetThreads : rst.threads[u].pc = "free" => t <= u}

\* The requests: a GET carries no form, and a form that fails validation is
\* answered before any address is looked up, so it is sent without one.
Sent(method, email, form) ==
    /\ method = "GET" => email = "" /\ form = "ok"
    /\ form # "ok" => email = ""

\* GET or POST /register up to the INSERT: the form, its validation and the
\* SELECT of line 67.
Register ==
    \E thread \in ResetFreeThread, method \in {"GET", "POST"},
       email \in EmailInputs, form \in RegisterForms :
        LET statement == [handler |-> "register", statement |-> "select",
                          email |-> email, token |-> 0, method |-> method,
                          form |-> form, code |-> "", at |-> 0]
            answer(code) == ResetRespond(thread, ResetFree, statement, code,
                                rst.users, rst.issued, rst.used, rst.hashes)
        IN  /\ rst.threads[thread].pc = "free"
            /\ Sent(method, email, form)
            /\ IF method = "GET" THEN answer("form")
               ELSE IF form # "ok" \/ email = "" THEN answer("form_error")
               ELSE IF rst.users[email].registered THEN answer("exists")
               ELSE ResetRespond(thread,
                        [pc |-> "insert", handler |-> "register",
                         email |-> email, token |-> 0, at |-> 0],
                        statement, "", rst.users, rst.issued, rst.used, rst.hashes)

\* Lines 76-88: the password is hashed and the row inserted; the address is
\* UNIQUE, so the INSERT fails when the row has been inserted meanwhile.
InsertUser ==
    \E thread \in ResetThreads :
        LET request == rst.threads[thread]
            statement == [handler |-> "register", statement |-> "insert",
                          email |-> request.email, token |-> 0,
                          method |-> "POST", form |-> "ok", code |-> "", at |-> 0]
        IN  /\ request.pc = "insert"
            /\ IF rst.users[request.email].registered
               THEN ResetRespond(thread, ResetFree, statement, "error",
                        rst.users, rst.issued, rst.used, rst.hashes)
               ELSE ResetRespond(thread, ResetFree, statement, "registered",
                        [rst.users EXCEPT
                            ![request.email] = NewAccount(rst.hashes + 1)],
                        rst.issued, rst.used, rst.hashes + 1)

\* The reset requests that have found their user and not stored a token yet.
Storing == {t \in ResetThreads : rst.threads[t].pc = "store"}

\* GET or POST /reset-password up to the UPDATE: the form, the missing
\* address, the SELECT of line 193 and the unknown address, or a user found
\* and the clock read for the expiry (line 199).
ResetPassword ==
    /\ Len(rst.issued) + Cardinality(Storing) < MaxTokens
    /\ \E thread \in ResetFreeThread, method \in {"GET", "POST"},
          email \in EmailInputs :
          LET statement == [handler |-> "reset_password", statement |-> "select",
                            email |-> email, token |-> 0, method |-> method,
                            form |-> "", code |-> "", at |-> 0]
              answer(code) == ResetRespond(thread, ResetFree, statement, code,
                                  rst.users, rst.issued, rst.used, rst.hashes)
          IN  /\ rst.threads[thread].pc = "free"
              /\ Sent(method, email, "ok")
              /\ IF method = "GET" THEN answer("form")
                 ELSE IF email = "" THEN answer("email_required")
                 ELSE IF ~rst.users[email].registered THEN answer("sent_if_exists")
                 ELSE ResetRespond(thread,
                          [pc |-> "store", handler |-> "reset_password",
                           email |-> email, token |-> 0, at |-> rst.now],
                          statement, "", rst.users, rst.issued, rst.used, rst.hashes)

\* Lines 202-208: the token is stored with its expiry and committed; the
\* request goes on to send the mail.
StoreResetToken ==
    \E thread \in ResetThreads :
        LET request == rst.threads[thread]
            reset_token == Len(rst.issued) + 1
            reset_expiry == request.at + 60 * hours
        IN  /\ request.pc = "store"
            /\ ResetRespond(thread,
                   [request EXCEPT !.pc = "mail", !.token = reset_token],
                   [handler |-> "reset_password", statement |-> "update",
                    email |-> request.email, token |-> reset_token,
                    method |-> "POST", form |-> "", code |-> "", at |-> 0],
                   "",
                   [rst.users EXCEPT
                       ![request.email].reset_token = Num(reset_token),
                       ![request.email].reset_token_expiry = Num(reset_expiry)],
                   Append(rst.issued, [email |-> request.email, at |-> request.at]),
                   rst.used, rst.hashes)

\* Lines 210-238: mail.send(msg) returns or raises, and the request is
\* answered; a mail that fails leaves the token stored.
SendResetMail ==
    \E thread \in ResetThreads, mail_ok \in BOOLEAN :
        LET request == rst.threads[thread]
        IN  /\ request.pc = "mail"
            /\ ResetRespond(thread, ResetFree,
                   [handler |-> "reset_password", statement |-> "mail",
                    email |-> request.email, token |-> request.token,
                    method |-> "POST", form |-> "", code |-> "", at |-> 0],
                   IF mail_ok THEN "sent" ELSE "error",
                   rst.users, rst.issued, rst.used, rst.hashes)

\* WHERE reset_token = %s AND reset_token_expiry > %s, with (token, now): a
\* NULL column satisfies neither comparison.
valid_token(row, token, now) ==
    /\ ~row.reset_token.none
    /\ row.reset_token.n = token
    /\ ~row.reset_token_expiry.none
    /\ row.reset_token_expiry.n > now

\* cur.fetchone() of that SELECT
find_user(token) ==
    IF \E e \in Emails : valid_token(rst.users[e], token, rst.now)
    THEN CHOOSE e \in Emails : valid_token(rst.users[e], token, rst.now)
    ELSE NoUser

\* GET or POST /reset-password/<token> up to the UPDATE: the SELECT of lines
\* 256-260, the form, the validation of the form.
ResetPasswordConfirm ==
    \E thread \in ResetFreeThread, token \in 1..MaxTokens,
       method \in {"GET", "POST"}, form \in Forms :
        LET user == find_user(token)
            statement == [handler |-> "reset_password_confirm",
                          statement |-> "select",
                          email |-> IF user = NoUser THEN "" ELSE user,
                          token |-> token, method |-> method, form |-> form,
                          code |-> "", at |-> 0]
            answer(code) == ResetRespond(thread, ResetFree, statement, code,
                                rst.users, rst.issued, rst.used, rst.hashes)
        IN  /\ rst.threads[thread].pc = "free"
            /\ Sent(method, "", form)
            /\ IF user = NoUser THEN answer("invalid")
               ELSE IF method = "GET" THEN answer("form")
               ELSE IF form # "ok" THEN answer("form_error")
               ELSE ResetRespond(thread,
                        [pc |-> "update", handler |-> "reset_password_confirm",
                         email |-> user, token |-> token, at |-> 0],
                        statement, "", rst.users, rst.issued, rst.used, rst.hashes)

\* Lines 284-296: UPDATE users SET password_hash = %s, reset_token = NULL,
\* reset_token_expiry = NULL WHERE id = %s, for the user the SELECT found.
UpdatePassword ==
    \E thread \in ResetThreads :
        LET request == rst.threads[thread]
        IN  /\ request.pc = "update"
            /\ ResetRespond(thread, ResetFree,
                   [handler |-> "reset_password_confirm", statement |-> "update",
                    email |-> request.email, token |-> request.token,
                    method |-> "POST", form |-> "ok", code |-> "", at |-> 0],
                   "reset",
                   [rst.users EXCEPT ![request.email] = NewAccount(rst.hashes + 1)],
                   rst.issued, rst.used \cup {request.token}, rst.hashes + 1)

\* Half an hour passes.
ResetTick ==
    /\ rst.now < MaxMinutes
    /\ rst' = [rst EXCEPT !.now = @ + 30, !.before = rst.users,
                          !.used_before = rst.used,
                          !.last = [NoStatement EXCEPT !.handler = "tick",
                                                       !.at = rst.now]]
    /\ UNCHANGED <<est, deg, clim, cli, ana, rec, trd, alr, prj, pcd, sta, fer>>

NextReset ==
    \/ Register
    \/ InsertUser
    \/ ResetPassword
    \/ StoreResetToken
    \/ SendResetMail
    \/ ResetPasswordConfirm
    \/ UpdatePassword
    \/ ResetTick

SpecReset == InitReset /\ [][NextReset]_vars

\* The last statement was the SELECT of a token presented to
\* /reset-password/<token>.
Presented ==
    /\ rst.last.handler = "reset_password_confirm"
    /\ rst.last.statement = "select"

WasIssued(token) == token \in 1..Len(rst.issued)

\* A later reset request was answered for the user the token was issued to.
Superseded(token) ==
    /\ WasIssued(token)
    /\ \E later \in (token + 1)..Len(rst.issued) :
          rst.issued[later].email = rst.issued[token].email

\* One hour after the issue of the token has passed.
Expired(token) ==
    /\ WasIssued(token)
    /\ rst.now >= rst.issued[token].at + 60

\* The account had a password and has another one now.
PasswordChanged(e) ==
    /\ rst.before[e].registered
    /\ rst.users[e].password_hash # rst.before[e].password_hash

\* C23: a password changes only for a request that presented a token, while
\* the token is the stored token of that user and within one hour of its
\* issue; a token presented after a successful reset with it, after a newer
\* reset request of the same user, or after its expiry is rejected as invalid
\* or expired and no password changes.
C23_TokenValidOnce ==
    /\ \A e \in Emails :
          PasswordChanged(e) =>
              /\ rst.last.handler = "reset_password_confirm"
              /\ WasIssued(rst.last.token)
              /\ rst.issued[rst.last.token].email = e
              /\ rst.before[e].reset_token = Num(rst.last.token)
              /\ rst.now < rst.issued[rst.last.token].at + 60
    /\ (Presented /\ (\/ rst.last.token \in rst.used_before
                      \/ Superseded(rst.last.token)
                      \/ Expired(rst.last.token))) =>
           /\ rst.last.code = "invalid"
           /\ \A e \in Emails : ~PasswordChanged(e)

\* The second half of C23 alone: a token presented after its use, after a
\* newer request or after its expiry is rejected by the SELECT.
StaleTokenRejectedAtSelect ==
    (Presented /\ (\/ rst.last.token \in rst.used_before
                   \/ Superseded(rst.last.token)
                   \/ Expired(rst.last.token))) =>
        rst.last.code = "invalid"

-----------------------------------------------------------------------------
(***************************************************************************)
(* SpecFertility: the fertility classification of two soils of equal NDVI, *)
(* one with a pH in the optimal band and one with a pH in a marginal band, *)
(* by the service (_calculate_fertility) or by step 8 of the project       *)
(* analysis.                                                               *)
(***************************************************************************)
OptimalPh == 60..75

MarginalPh == (55..59) \cup (76..80)

FertilityNdvi == 0..100

InitFertility ==
    /\ est = EstIdle /\ deg = DegIdle /\ clim = ClimIdle /\ cli = CliIdle
    /\ ana = AnaIdle /\ rec = RecIdle /\ trd = TrdIdle /\ alr = AlrIdle
    /\ prj = PrjIdle /\ pcd = PcdIdle /\ sta = StaIdle /\ rst = RstIdle
    /\ fer \in [pc : {"start"}, impl : {"service", "projects"},
                ndvi : FertilityNdvi, optimal_ph : OptimalPh,
                marginal_ph : MarginalPh, optimal : {""}, marginal : {""}]

\* LandDataService._calculate_fertility on both soils
CalculateFertility ==
    /\ fer.pc = "start" /\ fer.impl = "service"
    /\ fer' = [fer EXCEPT !.pc = "done",
                          !.optimal = _calculate_fertility(fer.optimal_ph, fer.ndvi),
                          !.marginal = _calculate_fertility(fer.marginal_ph, fer.ndvi)]
    /\ UNCHANGED <<est, deg, clim, cli, ana, rec, trd, alr, prj, pcd, sta, rst>>

\* Step 8 of comprehensive_land_analysis on both soils
DetermineSoilFertility ==
    /\ fer.pc = "start" /\ fer.impl = "projects"
    /\ fer' = [fer EXCEPT !.pc = "done",
                          !.optimal = soil_fertility(fer.optimal_ph, fer.ndvi),
                          !.marginal = soil_fertility(fer.marginal_ph, fer.ndvi)]
    /\ UNCHANGED <<est, deg, clim, cli, ana, rec, trd, alr, prj, pcd, sta, rst>>

NextFertility ==
    \/ CalculateFertility
    \/ DetermineSoilFertility

SpecFertility == InitFertility /\ [][NextFertility]_vars

\* low < medium < high
FertilityRank(class) ==
    CASE class = "low" -> 0
      [] class = "medium" -> 1
      [] class = "high" -> 2

\* C27: for every NDVI, a soil pH in the optimal band [6.0, 7.5] never gives a
\* lower fertility class (low < medium < high) than a soil pH in the marginal
\* bands [5.5, 6.0) and (7.5, 8.0].
C27_FertilityMonotoneInPh ==
    fer.pc = "done" =>
        FertilityRank(fer.optimal) >= FertilityRank(fer.marginal)

-----------------------------------------------------------------------------
\* The keys of the base_ph dictionary of _calculate_soil_ph and of
\* calculate_soil_ph.
BasePhKeys ==
    {"Laterite", "Tropical Red", "Alluvial", "Loamy", "Clay", "Sandy", "Rocky",
     "Mountain Soil", "Podzol", "Tundra"}

\* C28: every soil type the soil-type estimator returns inside the pipeline,
\* for any latitude, longitude and elevation, is a key of the base pH table:
\* the soil pH estimator never takes the default base pH 6.5.
C28_SoilTypeHasBasePh ==
    (est.pc = "done" /\ ~est.out.none) => est.out.soil_type \in BasePhKeys

-----------------------------------------------------------------------------
\* The series of the payload holds a reading for the date.
HasDate(series, date) ==
    \E i \in 1..Len(series.items) : series.items[i][1] = date

\* The reading the series of the payload holds for the date.
ReadingOn(series, date) ==
    LET i == CHOOSE k \in 1..Len(series.items) : series.items[k][1] = date
    IN  series.items[i][2].n

\* C29: in every climate history returned by _process_climate_data, the lists
\* temperature, rainfall, humidity, wind_speed and solar_radiation of
\* time_series are each as long as time_series.dates, and the i-th value of
\* each list is the reading of its metric for the i-th date, for any payload,
\* also one whose metric series have different sets of date keys.
C29_SeriesAlignedWithDates ==
    (clim.pc = "done" /\ ~clim.result.none) =>
        \A m \in Metrics :
            LET dates == clim.result.time_series.dates
                exposed == ExposedSeries(m)
                series == clim.raw_data.parameter[m]
            IN  /\ Len(exposed) = Len(dates)
                /\ \A i \in 1..Len(dates) :
                      /\ HasDate(series, dates[i])
                      /\ exposed[i] = ReadingOn(series, dates[i])

====
